---- MODULE Spec2Model ----
(***************************************************************************)
(* A model of refrakt: store.ts (store, baseSend, middleware composition)  *)
(* and signals.ts (the batched effect scheduler built on the               *)
(* signal-polyfill Watcher).                                               *)
(*                                                                         *)
(* The reactive graph of signal-polyfill is modelled node by node: a       *)
(* Signal.State is a value with a version, a Signal.Computed has a dirty   *)
(* flag, a cached value state and the list of producers it read with the   *)
(* versions it saw, the Watcher has its own dirty flag and the ordered     *)
(* list of computeds it watches.                                           *)
(***************************************************************************)
EXTENDS Integers, Sequences, FiniteSets, TLC

\* ------------------------------------------------------------------ bounds

\* Cell values and store states range over 0..MaxVal.
MaxVal == 2
\* External writes (cell.set and store.send calls) in one behaviour.
MaxWrites == 3
\* Longest middleware list a store is created with.
MaxMw == 3
\* External sends to the store with managed effects in one behaviour.
MaxDispatch == 2
\* External sends to the clock store, and reducer calls of the clock store, in one
\* behaviour.
MaxClockSends == 3
MaxApplied == 6
\* Most iterables given to mergeAsync, and most values of one iterable.
MaxSources == 2
MaxItems == 2

\* ------------------------------------------------------- inputs of the model

\* Cell 1 is the $state signal of the store; cells 2 and 3 are plain signal()s.
StoreCell == 1
PlainCell == 2
OtherCell == 3
Cells == {StoreCell, PlainCell, OtherCell}

\* The reactions (calls of effect()) a behaviour may create: those of the batching
\* and error tests, and those of the tracking tests.
BatchEffects == {1, 2}
PeekEffect == 3
CondEffect == 4
ScopeEffect == 5
SendEffect == 6
DiamondEffect == 7
CatchEffect == 8
Effects ==
    BatchEffects \cup {PeekEffect, CondEffect, ScopeEffect, SendEffect, DiamondEffect,
                       CatchEffect}

\* Node 4 is the $state signal of the parent store of the scope tests. Nodes 5 to 7
\* are the $state computeds of its scoped stores: the child object, the counter
\* of the child object (a scope of the first scoped store) and the name.
ParentCell == 4
ScopeChild == 5
ScopeCounter == 6
ScopeName == 7
Scopes == {ScopeChild, ScopeCounter, ScopeName}

\* Nodes 8 to 10 are the computeds of the dependency graph test: sum and product
\* read the two plain signals, combined reads sum and product.
Sum == 8
Product == 9
Combined == 10
DiamondNodes == {Sum, Product, Combined}

\* The value on which a body throws (5 in the error test): the largest store state.
ThrowVal == MaxVal

\* The state the store is created with.
InitialState == 0

\* The store state on which the body of reaction 2 unsubscribes reaction 1.
UnsubVal == InitialState + 1

Msg(t, v) == [type |-> t, value |-> v]

\* The store argument of scope: the parent store, or the scoped store scoped again.
ParentOf(s) == IF s = ScopeCounter THEN ScopeChild ELSE ParentCell

\* The state the parent store is created with. An object carries an id that stands
\* for its reference: two objects are Object.is-equal when they are equal with it.
ParentInit ==
    [id |-> 0, child |-> [id |-> 0, counter |-> InitialState], name |-> 0]

\* CounterMsg of the store tests; "noop" is matched by no branch.
Msgs ==
    {Msg("increment", 0), Msg("decrement", 0), Msg("noop", 0)}
        \cup {Msg("set", v) : v \in 0..MaxVal}
        \cup {Msg("add", v) : v \in 1..2}

VARIABLES
    cells,         \* [Cells -> [value, version]]: the Signal.State nodes
    comp,          \* [Effects -> ...]: the Signal.Computed of each effect() and its `cleanup`
    derived,       \* [Scopes -> ...]: the Signal.Computed $state of each scoped store
    diamond,       \* [DiamondNodes -> ...]: the Signal.Computed sum, product and combined
    watcher,       \* [dirty, producerNode]: the module's Watcher `w`
    needsEnqueue,  \* the module variable needsEnqueue
    microtasks,    \* number of processPending callbacks in the microtask queue
    middleware,    \* the middleware list the store was created with
    log,           \* what the recording middlewares and the reducer pushed in the last send
    states,        \* what getState() returned to the middlewares in the last send, in order
    decorated,     \* the store is wrapped by fx(testFx) of middleware/fx.ts
    drains,        \* the forkFx calls so far, in order: each generator and its history
    unknown,       \* what console.warn("Unknown message", msg) was called with in the last send
    warnings,      \* history: the drains whose forkFx called console.warn("Error in fx")
    applied,       \* history: the messages the reducer of the store with managed effects
                   \*   received, in order, each with the drain that sent it (0: outside);
                   \*   those the parent store's send received, each with the scoped
                   \*   store whose send was called (0: the parent store's)
    sent,          \* history: the messages sent to the store from outside, in order
    got,           \* the value returned by the last store.get() from outside
    runs,          \* history: [Effects -> number of times the body was called]
    seen,          \* history: [Effects -> [Cells \cup Scopes \cup DiamondNodes -> value read in the last run, or -1]]
    calls,         \* history: [Effects -> Seq(Seq(Nat))]: calls[e][k] lists where the cleanup
                   \*   returned by run k was invoked: n > 0 in run n, 0 in unsubscribe
    unsubAt,       \* history: [Effects -> runs[e] when unsubscribe was first called, or -1]
    order,         \* history: the reactions whose bodies were called since the last
                   \*   flush started, in the order of the calls
    merge,         \* the mergeAsync generator: its position, iterators, pending map
                   \*   and the history of what it yielded and of the next() calls
    errorThrown,   \* the variable errorThrown of the error test: its catch block ran
    written,       \* history: what $state.set was called with in the last send of the
                   \*   store whose reducer sends, in the order of the calls
    writes,        \* number of external writes so far
    last           \* history: the last operation and what it did

vars == <<cells, comp, derived, diamond, watcher, needsEnqueue, microtasks, middleware, log, states,
          decorated, drains, unknown, warnings, applied, sent, got, runs, seen, calls, unsubAt,
          order, merge, written, errorThrown, writes, last>>

\* ---------------------------------------------------------------- helpers

Range(s) == {s[i] : i \in 1..Len(s)}

\* The program state as one record, threaded through the synchronous calls.
Cur ==
    [cells |-> cells, comp |-> comp, derived |-> derived, diamond |-> diamond,
     watcher |-> watcher, needsEnqueue |-> needsEnqueue,
     microtasks |-> microtasks, log |-> log, states |-> states, drains |-> drains,
     unknown |-> unknown, warnings |-> warnings, applied |-> applied, runs |-> runs,
     seen |-> seen, calls |-> calls, unsubAt |-> unsubAt, order |-> order,
     written |-> written, merge |-> merge, errorThrown |-> errorThrown,
     wrote |-> FALSE, from |-> 0]

Commit(g) ==
    /\ cells' = g.cells
    /\ comp' = g.comp
    /\ derived' = g.derived
    /\ diamond' = g.diamond
    /\ watcher' = g.watcher
    /\ needsEnqueue' = g.needsEnqueue
    /\ microtasks' = g.microtasks
    /\ log' = g.log
    /\ states' = g.states
    /\ drains' = g.drains
    /\ unknown' = g.unknown
    /\ warnings' = g.warnings
    /\ applied' = g.applied
    /\ runs' = g.runs
    /\ seen' = g.seen
    /\ calls' = g.calls
    /\ unsubAt' = g.unsubAt
    /\ order' = g.order
    /\ written' = g.written
    /\ merge' = g.merge
    /\ errorThrown' = g.errorThrown

\* ------------------------------------------------------------- the reducer

\* counterReducer of the store tests; its default branch is updateUnknown.
updateUnknown(state, msg) == state

\* The calls of console.warn("Unknown message", msg) updateUnknown makes.
\* (updateUnknown returns the state without logging)
updateUnknownSilent(state, msg) == <<>>

updateUnknownWarns(state, msg) == <<msg>>

update(state, msg) ==
    CASE msg.type = "increment" -> state + 1
      [] msg.type = "decrement" -> state - 1
      [] msg.type = "set" -> msg.value
      [] msg.type = "add" -> state + msg.value
      [] OTHER -> updateUnknown(state, msg)

\* counterReducer of the fx tests, on a state object { count, loading }: every branch
\* but the default one spreads the state into a new object, the effect messages
\* async_increment (simple effects test) and async_error (error test) set loading,
\* and the default branch returns the object it was given, without a warning.
counterReducer(state, msg) ==
    CASE msg.type = "increment" -> [state EXCEPT !.id = @ + 1, !.count = @ + 1]
      [] msg.type = "decrement" -> [state EXCEPT !.id = @ + 1, !.count = @ - 1]
      [] msg.type = "set" -> [state EXCEPT !.id = @ + 1, !.count = msg.value]
      [] msg.type \in {"async_increment", "async_error"} ->
            [state EXCEPT !.id = @ + 1, !.loading = TRUE]
      [] OTHER -> state

\* (the name branch builds the state anew with a child object at its initial value)
parentReducerClobbers(state, msg) ==
    IF msg.type = "set_name"
    THEN [id |-> state.id + 1,
          child |-> [id |-> state.id + 1, counter |-> InitialState],
          name |-> msg.value]
    ELSE [id |-> state.id + 1,
          child |-> [id |-> state.id + 1,
                     counter |-> IF msg.type \in {"set_counter", "l1_child_set"}
                                 THEN msg.value
                                 ELSE state.child.counter + 1],
          name |-> state.name]

\* parentReducer of the scope tests, on a parent state with a child object: the
\* counter branches build a new child object, the name branch spreads the state
\* and keeps the child object, the default branch returns the state it was given.
parentReducer(state, msg) ==
    CASE msg.type \in {"increment_counter", "l1_child_increment"} ->
            [id |-> state.id + 1,
             child |-> [id |-> state.id + 1, counter |-> state.child.counter + 1],
             name |-> state.name]
      [] msg.type \in {"set_counter", "l1_child_set"} ->
            [id |-> state.id + 1,
             child |-> [id |-> state.id + 1, counter |-> msg.value],
             name |-> state.name]
      [] msg.type = "set_name" -> [state EXCEPT !.id = @ + 1, !.name = msg.value]
      [] OTHER -> state

\* The get argument of scope: the projection of each scoped store.
project(s, state) ==
    CASE s = ScopeChild -> state.child
      [] s = ScopeCounter -> state.counter
      [] OTHER -> state.name

\* The tag argument of scope: the counter store tags with child_, the child store
\* with l1_, the name store passes its message on.
tag(s, msg) ==
    CASE s = ScopeCounter ->
            (CASE msg.type = "increment" -> Msg("child_increment", 0)
               [] msg.type = "set" -> Msg("child_set", msg.value)
               [] OTHER -> msg)
      [] s = ScopeChild ->
            (CASE msg.type = "child_increment" -> Msg("l1_child_increment", 0)
               [] msg.type = "child_set" -> Msg("l1_child_set", msg.value)
               [] OTHER -> msg)
      [] OTHER -> msg

\* The calls of console.warn the reducer makes for msg: those of its default branch.
updateWarns(state, msg) ==
    IF msg.type \in {"increment", "decrement", "set", "add"}
    THEN <<>>
    ELSE updateUnknownWarns(state, msg)

\* ------------------------------------------- signal-polyfill: State and Watcher

IsWatched(g, e) == e \in Range(g.watcher.producerNode)

\* The computeds of effect() that are live consumers of node c: a computed is live
\* while the Watcher watches it, and consumes the producers it read in its last
\* evaluation.
LiveConsumers(g, c) ==
    {e \in Effects : IsWatched(g, e) /\ c \in Range(g.comp[e].producerNode)}

\* The version of a producer node, a State or the Computed of a scoped store.
NodeVersion(g, n) ==
    CASE n \in Scopes -> g.derived[n].version
      [] n \in DiamondNodes -> g.diamond[n].version
      [] OTHER -> g.cells[n].version

\* The Computed of a scoped store is live while a live consumer read it in its last
\* evaluation: a watched reaction, or the live Computed of a scope of that store
\* (a scope of a scope of a scoped store is not built).
IsLiveScope(g, s) ==
    \/ LiveConsumers(g, s) # {}
    \/ \E s2 \in Scopes :
           ParentOf(s2) = s /\ g.derived[s2].set /\ LiveConsumers(g, s2) # {}

\* The clean live Computeds of scoped stores that read node n.
CleanLiveScopes(g, n) ==
    {s \in Scopes : /\ ParentOf(s) = n
                    /\ g.derived[s].set
                    /\ ~g.derived[s].dirty
                    /\ IsLiveScope(g, s)}

\* The Computeds of scoped stores that a change of node n reaches:
\* consumerMarkDirty marks each clean live consumer and notifies its own.
ScopesReached(g, n) ==
    CleanLiveScopes(g, n) \cup UNION {CleanLiveScopes(g, s) : s \in CleanLiveScopes(g, n)}

\* The producers a computed of the dependency graph reads, in the order of the reads.
NodeProducers(n) == IF n = Combined THEN <<Sum, Product>> ELSE <<PlainCell, OtherCell>>

\* A computed of the dependency graph is live while a live consumer read it in its
\* last evaluation: combined a watched reaction, sum and product the live combined.
NodeIsLive(g, n) ==
    /\ LiveConsumers(g, Combined) # {}
    /\ n # Combined => g.diamond[Combined].set

\* The computeds of the dependency graph that a change of cell c reaches: each clean
\* live consumer of the cell, and combined when one of them was clean.
DiamondReached(g, c) ==
    CHOOSE x \in
        {leaves \cup (IF leaves # {} /\ NodeIsLive(g, Combined) /\ ~g.diamond[Combined].dirty
                      THEN {Combined} ELSE {}) :
            leaves \in {{n \in {Sum, Product} : /\ c \in Range(NodeProducers(n))
                                                 /\ NodeIsLive(g, n)
                                                 /\ g.diamond[n].set
                                                 /\ ~g.diamond[n].dirty}}} : TRUE

\* signals.ts: the Watcher's notify callback.
NotifySync(g) ==
    IF g.needsEnqueue
    THEN [g EXCEPT !.runs = [e \in Effects |->
                        IF IsWatched(g, e) /\ g.comp[e].dirty THEN @[e] + 1 ELSE @[e]]]
    ELSE g

\* (queueMicrotask without the needsEnqueue test)
NotifyAlways(g) ==
    [g EXCEPT !.needsEnqueue = FALSE, !.microtasks = @ + 1]

Notify(g) ==
    IF g.needsEnqueue
    THEN [g EXCEPT !.needsEnqueue = FALSE, !.microtasks = @ + 1]
    ELSE g

\* consumerMarkDirty on the Watcher node: it notifies only when it was clean.
WatcherMarkDirty(g) ==
    IF g.watcher.dirty THEN g ELSE Notify([g EXCEPT !.watcher.dirty = TRUE])

\* producerNotifyConsumers of a State: every clean live consumer becomes dirty
\* and passes the notification on to the Watcher.
ProducerNotifyConsumers(g, c) ==
    LET ss == ScopesReached(g, c)
        dd == DiamondReached(g, c)
        hit == {e \in UNION {LiveConsumers(g, n) : n \in {c} \cup ss \cup dd} :
                   ~g.comp[e].dirty}
        g1 == [g EXCEPT !.comp = [e \in Effects |->
                   IF e \in hit THEN [@[e] EXCEPT !.dirty = TRUE] ELSE @[e]],
                        !.derived = [s \in Scopes |->
                   IF s \in ss THEN [@[s] EXCEPT !.dirty = TRUE] ELSE @[s]],
                        !.diamond = [n \in DiamondNodes |->
                   IF n \in dd THEN [@[n] EXCEPT !.dirty = TRUE] ELSE @[n]]]
    IN  IF hit = {} THEN g1 ELSE WatcherMarkDirty(g1)

\* Signal.State.set: nothing happens when the value is Object.is-equal.
SignalSet(g, c, v) ==
    IF g.cells[c].value = v
    THEN g
    ELSE ProducerNotifyConsumers(
             [g EXCEPT !.cells[c] = [value |-> v, version |-> @.version + 1],
                       !.wrote = TRUE], c)

\* The tracking context of the computed being evaluated (active FALSE: none).
NoFrame == [active |-> FALSE, prod |-> <<>>, ver |-> <<>>,
            seen |-> [c \in Cells \cup Scopes \cup DiamondNodes |-> -1], thrown |-> FALSE]

NewFrame == [NoFrame EXCEPT !.active = TRUE]

\* Signal.State.get: producerAccessed records the producer and the version read.
SignalGet(g, fr, c) ==
    IF fr.active
    THEN [fr EXCEPT !.prod = Append(@, c), !.ver = Append(@, g.cells[c].version),
                    !.seen[c] = g.cells[c].value]
    ELSE fr

\* A Signal.Computed never evaluated: dirty, without a value or a producer.
FreshDerived == [set |-> FALSE, value |-> 0, version |-> 0, dirty |-> TRUE, read |-> -1]

\* (every evaluation counts as a change, whatever it returns)
DerivedEvaluateAlways(g, s) ==
    LET d == g.derived[s]
        p == ParentOf(s)
        v == project(s, IF p \in Scopes THEN g.derived[p].value ELSE g.cells[p].value)
    IN  [g EXCEPT !.derived[s] =
            [set |-> TRUE, value |-> v, version |-> d.version + 1, dirty |-> FALSE,
             read |-> NodeVersion(g, p)]]

\* producerRecomputeValue: get(store.get()) against the value the node holds. An
\* evaluation that returns an Object.is-equal value keeps the value and the version.
DerivedEvaluate(g, s) ==
    LET d == g.derived[s]
        p == ParentOf(s)
        v == project(s, IF p \in Scopes THEN g.derived[p].value ELSE g.cells[p].value)
        same == d.set /\ d.value = v
    IN  [g EXCEPT !.derived[s] =
            [set |-> TRUE,
             value |-> IF same THEN d.value ELSE v,
             version |-> IF same THEN d.version ELSE d.version + 1,
             dirty |-> FALSE,
             read |-> NodeVersion(g, p)]]

\* (a Computed that has a value is never evaluated again)
DerivedRefreshOnce(g, s) ==
    IF g.derived[s].set THEN g ELSE DerivedEvaluate(g, s)

\* The node once its producer is up to date: it is re-evaluated when it has no
\* value or the producer's version is not the one it read.
DerivedRefresh(g, s) ==
    IF g.derived[s].set /\ g.derived[s].read = NodeVersion(g, ParentOf(s))
    THEN [g EXCEPT !.derived[s].dirty = FALSE]
    ELSE DerivedEvaluate(g, s)

\* producerUpdateValueVersion on the Computed of scoped store s, computed(() =>
\* get(store.get())): a live clean node is up to date; otherwise its producer, when
\* it is the Computed of a scoped store, is brought up to date in the same way (by
\* the poll, or by store.get() in the evaluation) and the node is refreshed.
DerivedUpdate(g, s) ==
    IF IsLiveScope(g, s) /\ ~g.derived[s].dirty
    THEN g
    ELSE IF ParentOf(s) \notin Scopes
    THEN DerivedRefresh(g, s)
    ELSE IF IsLiveScope(g, ParentOf(s)) /\ ~g.derived[ParentOf(s)].dirty
    THEN DerivedRefresh(g, s)
    ELSE CHOOSE x \in {DerivedRefresh(g1, s) :
                           g1 \in {DerivedRefresh(g, ParentOf(s))}} : TRUE

\* $state.get() of scoped store s: the node is brought up to date, then
\* producerAccessed records it and the version read in the active consumer.
ScopeGet(g, fr, s) ==
    CHOOSE x \in
        {[g |-> g1,
          value |-> g1.derived[s].value,
          fr |-> IF fr.active
                 THEN [fr EXCEPT !.prod = Append(@, s),
                                 !.ver = Append(@, g1.derived[s].version),
                                 !.seen[s] = g1.derived[s].value]
                 ELSE fr] : g1 \in {DerivedUpdate(g, s)}} : TRUE

\* A Signal.Computed of the dependency graph never evaluated. The value of a node is
\* a number of JavaScript: an integer, with negzero telling the zero -0 from 0.
FreshNode ==
    [set |-> FALSE, value |-> 0, negzero |-> FALSE, version |-> 0, dirty |-> TRUE,
     read |-> <<>>]

\* The callbacks given to computed(): base1.get() + base2.get(), base1.get() *
\* base2.get() and sum.get() + product.get(), on the numbers of JavaScript. The cells
\* hold integers, 0 being +0: their sum is never -0, their product is -0 when one
\* is 0 and the other negative, and a sum of two nodes is -0 when both are -0.
NodeCallback(g, n) ==
    CASE n = Sum ->
            [value |-> g.cells[PlainCell].value + g.cells[OtherCell].value,
             negzero |-> FALSE]
      [] n = Product ->
            [value |-> g.cells[PlainCell].value * g.cells[OtherCell].value,
             negzero |-> /\ g.cells[PlainCell].value * g.cells[OtherCell].value = 0
                         /\ (g.cells[PlainCell].value < 0 \/ g.cells[OtherCell].value < 0)]
      [] OTHER ->
            [value |-> g.diamond[Sum].value + g.diamond[Product].value,
             negzero |-> g.diamond[Sum].negzero /\ g.diamond[Product].negzero]

\* producerRecomputeValue of a computed of the dependency graph, its producers being
\* up to date: an Object.is-equal result (the same number, -0 and 0 being different)
\* keeps the value and the version.
NodeEvaluate(g, n) ==
    [g EXCEPT !.diamond[n] =
        [set |-> TRUE,
         value |-> NodeCallback(g, n).value,
         negzero |-> NodeCallback(g, n).negzero,
         version |-> IF /\ @.set
                        /\ @.value = NodeCallback(g, n).value
                        /\ @.negzero = NodeCallback(g, n).negzero
                     THEN @.version
                     ELSE @.version + 1,
         dirty |-> FALSE,
         read |-> [i \in 1..2 |-> NodeVersion(g, NodeProducers(n)[i])]]]

\* The node once its producers are up to date: a live clean node is kept, a node
\* whose producers have the versions it read becomes clean, another is re-evaluated.
NodeRefresh(g, n) ==
    IF NodeIsLive(g, n) /\ ~g.diamond[n].dirty
    THEN g
    ELSE IF /\ g.diamond[n].set
            /\ g.diamond[n].read = [i \in 1..2 |-> NodeVersion(g, NodeProducers(n)[i])]
    THEN [g EXCEPT !.diamond[n].dirty = FALSE]
    ELSE NodeEvaluate(g, n)

\* (combined brought up to date after sum alone)
CombinedUpdateAfterSum(g) ==
    IF NodeIsLive(g, Combined) /\ ~g.diamond[Combined].dirty
    THEN g
    ELSE CHOOSE x \in {NodeRefresh(g1, Combined) : g1 \in {NodeRefresh(g, Sum)}} : TRUE

\* producerUpdateValueVersion on combined: a live clean node is up to date;
\* otherwise sum and product are brought up to date, by the poll of the producers
\* or by sum.get() and product.get() in the evaluation, and the node is refreshed.
CombinedUpdate(g) ==
    IF NodeIsLive(g, Combined) /\ ~g.diamond[Combined].dirty
    THEN g
    ELSE CHOOSE x \in
             {NodeRefresh(g2, Combined) :
                 g2 \in {NodeRefresh(g1, Product) : g1 \in {NodeRefresh(g, Sum)}}} : TRUE

\* combined.get(): the node is brought up to date, then producerAccessed records it
\* and the version read in the active consumer.
CombinedGet(g, fr) ==
    CHOOSE x \in
        {[g |-> g1,
          fr |-> IF fr.active
                 THEN [fr EXCEPT !.prod = Append(@, Combined),
                                 !.ver = Append(@, g1.diamond[Combined].version),
                                 !.seen[Combined] = g1.diamond[Combined].value]
                 ELSE fr] : g1 \in {CombinedUpdate(g)}} : TRUE

\* ------------------------------------------------------------- store.ts

Event(at, mw) == [at |-> at, mw |-> mw]

\* baseSend: update($state.get(), msg), then $state.set(next).
BaseSendStale(g, fr, msg) ==
    [g |-> SignalSet([g EXCEPT !.log = Append(@, Event("reducer", 0)),
                               !.unknown = @ \o updateWarns(InitialState, msg)],
                     StoreCell, update(InitialState, msg)),
     fr |-> SignalGet(g, fr, StoreCell)]

BaseSend(g, fr, msg) ==
    LET next == update(g.cells[StoreCell].value, msg)
    IN  [g |-> SignalSet([g EXCEPT !.log = Append(@, Event("reducer", 0)),
                                   !.unknown = @ \o updateWarns(g.cells[StoreCell].value, msg)],
                         StoreCell, next),
         fr |-> SignalGet(g, fr, StoreCell)]

\* middleware.reduce((currentSend, mw) => mw(get)(currentSend), baseSend): the send
\* function as the list of its wrappers, outermost first, around baseSend.
RECURSIVE ComposeRight(_, _)
ComposeRight(mws, currentSend) ==
    IF mws = <<>> THEN currentSend
    ELSE ComposeRight(SubSeq(mws, 1, Len(mws) - 1), <<mws[Len(mws)]>> \o currentSend)

\* (mw(get)(baseSend) in place of mw(get)(currentSend): only the last wrapper is kept)
ComposeOverBase(mws, currentSend) ==
    IF mws = <<>> THEN currentSend ELSE <<mws[Len(mws)]>> \o currentSend

RECURSIVE Compose(_, _)
Compose(mws, currentSend) ==
    IF mws = <<>> THEN currentSend
    ELSE Compose(Tail(mws), <<Head(mws)>> \o currentSend)

\* ------------------------------------------- middleware/fx.ts: the generators

\* In the list of wrappers of a send function: the fx middleware (a member of the
\* list given to store) and the sendWithFx of a store decorated by fx.
FxMw == 0
FxDeco == -1
\* preventNegativeMiddleware of the store tests, as a member of the middleware list.
PreventMw == -2
\* baseSend of the clock store of the README, whose reducer is appReducer.
AppBase == -3
\* baseSend of the store of the fx tests, whose reducer is their counterReducer.
FxBase == -4

NoMsg == Msg("none", 0)

\* A reducer that calls send on its own store before it returns: "relay" sends an add
\* of its value and returns the state it was given plus one, "chain" sends a relay
\* and returns that state plus two; the other messages are those of counterReducer.
\* The message the reducer sends while it handles msg, or NoMsg.
reducerSend(msg) ==
    CASE msg.type = "relay" -> Msg("add", msg.value)
      [] msg.type = "chain" -> Msg("relay", msg.value)
      [] OTHER -> NoMsg

\* The value the reducer returns for msg in state.
reducerReturns(state, msg) ==
    CASE msg.type = "relay" -> state + 1
      [] msg.type = "chain" -> state + 2
      [] OTHER -> update(state, msg)

\* (the outer reducer's value taken from the state the nested send left)
RECURSIVE BaseSendNestingFresh(_, _, _)
BaseSendNestingFresh(g, fr, msg) ==
    CHOOSE x \in {[g |-> SignalSet([r.g EXCEPT !.written =
                                       Append(@, reducerReturns(r.g.cells[StoreCell].value, msg))],
                                   StoreCell,
                                   reducerReturns(r.g.cells[StoreCell].value, msg)),
                   fr |-> r.fr] :
                      r \in {IF reducerSend(msg) = NoMsg
                             THEN [g |-> g, fr |-> SignalGet(g, fr, StoreCell)]
                             ELSE BaseSendNestingFresh(g, SignalGet(g, fr, StoreCell),
                                                       reducerSend(msg))}} : TRUE

\* baseSend of the store whose reducer sends: update($state.get(), msg) reads the
\* state, the reducer calls send, which is baseSend again and returns after its own
\* $state.set, and then $state.set(next) writes what the outer reducer returned.
RECURSIVE BaseSendNesting(_, _, _)
BaseSendNesting(g, fr, msg) ==
    CHOOSE x \in {[g |-> SignalSet([r.g EXCEPT !.written =
                                       Append(@, reducerReturns(g.cells[StoreCell].value, msg))],
                                   StoreCell,
                                   reducerReturns(g.cells[StoreCell].value, msg)),
                   fr |-> r.fr] :
                      r \in {IF reducerSend(msg) = NoMsg
                             THEN [g |-> g, fr |-> SignalGet(g, fr, StoreCell)]
                             ELSE BaseSendNesting(g, SignalGet(g, fr, StoreCell),
                                                  reducerSend(msg))}} : TRUE

\* The steps of an async generator body: every one is a point where it suspends.
Await == [op |-> "await", msg |-> NoMsg, plus |-> 0]
Yield(m) == [op |-> "yield", msg |-> m, plus |-> 0]
\* yield { type: "set", value: get().count + k }
YieldSetPlus(k) == [op |-> "yieldset", msg |-> NoMsg, plus |-> k]
Throw == [op |-> "throw", msg |-> NoMsg, plus |-> 0]

\* The effect function of the fx tests, as the body it runs for each message type;
\* "async_start" yields a message that has an effect of its own, "yield_error"
\* throws after a message it yielded.
testFx(msg) ==
    CASE msg.type = "async_increment" ->
            <<Await, Yield(Msg("increment", 0)), YieldSetPlus(5)>>
      [] msg.type = "async_error" -> <<Await, Throw>>
      [] msg.type = "error" -> <<Throw>>
      [] msg.type = "yield_error" -> <<Yield(Msg("increment", 0)), Throw>>
      [] msg.type = "async_start" -> <<Yield(Msg("async_increment", 0))>>
      [] OTHER -> <<>>

\* The clock of the README: AppState is { isClockRunning }, held as 1 or 0; the
\* reducer starts and stops the clock and leaves the state as it is on a tick.
isClockRunning(state) == state = 1

appReducer(state, msg) ==
    CASE msg.type = "start-clock" -> 1
      [] msg.type = "stop-clock" -> 0
      [] OTHER -> state

\* while (state().isClockRunning === true) { yield m; ...: the condition and the
\* yield of the body; ... await sleep(1000) }: the await and the jump to the condition.
WhileRunningYield(m) == [op |-> "while", msg |-> m, plus |-> 0]
SleepAndLoop == [op |-> "sleep", msg |-> NoMsg, plus |-> 0]

\* clockFx of the README, as the body it runs for each message type.
clockFx(msg) ==
    IF msg.type = "start-clock"
    THEN <<WhileRunningYield(Msg("tick", 0)), SleepAndLoop>>
    ELSE <<>>

\* baseSend of the clock store: appReducer in place of counterReducer.
BaseSendApp(g, fr, msg) ==
    [g |-> SignalSet([g EXCEPT !.log = Append(@, Event("reducer", 0))],
                     StoreCell, appReducer(g.cells[StoreCell].value, msg)),
     fr |-> SignalGet(g, fr, StoreCell)]

\* baseSend of the store of the fx tests: their counterReducer in place of that of
\* the store tests.
BaseSendFx(g, fr, msg) ==
    [g |-> SignalSet([g EXCEPT !.log = Append(@, Event("reducer", 0))],
                     StoreCell, counterReducer(g.cells[StoreCell].value, msg)),
     fr |-> SignalGet(g, fr, StoreCell)]

\* The generator object fx(getUntracked, msg) returns, with the send function forkFx
\* was given and the history: the drain whose loop sent msg (0: sent from outside),
\* the state the effect started from, what it yielded and what its loop sent.
NewDrain(g, msg, send) ==
    [msg |-> msg, pc |-> 1, status |-> "created", pend |-> NoMsg, send |-> send,
     by |-> g.from, born |-> g.cells[StoreCell].value, yielded |-> <<>>, delivered |-> <<>>]

\* (getState as a snapshot taken when the effect was invoked)
ResumeSnapshot(g, d) ==
    LET dr == g.drains[d]
        prog == testFx(dr.msg)
    IN  IF dr.pc > Len(prog)
        THEN [g EXCEPT !.drains[d].status = "done", !.drains[d].pend = NoMsg]
        ELSE LET o == prog[dr.pc]
                 m == IF o.op = "yieldset" THEN Msg("set", dr.born.count + o.plus) ELSE o.msg
             IN  [g EXCEPT !.drains[d] =
                     [@ EXCEPT !.pc = dr.pc + 1,
                               !.pend = m,
                               !.status = CASE o.op = "await" -> "awaiting"
                                            [] o.op = "throw" -> "threw"
                                            [] OTHER -> "yielded",
                               !.yielded = IF m = NoMsg THEN @ ELSE Append(@, m)]]

\* generator.next(): the body runs from where it is suspended to its next await,
\* yield, throw or return; get().count reads the store's current state untracked.
Resume(g, d) ==
    LET dr == g.drains[d]
        prog == IF dr.msg.type \in {"start-clock", "stop-clock", "tick"} THEN clockFx(dr.msg) ELSE testFx(dr.msg)
    IN  IF \/ dr.pc > Len(prog)
           \/ prog[dr.pc].op = "while" /\ ~isClockRunning(g.cells[StoreCell].value)
        THEN [g EXCEPT !.drains[d].status = "done", !.drains[d].pend = NoMsg]
        ELSE LET o == prog[dr.pc]
                 m == IF o.op = "yieldset"
                      THEN Msg("set", g.cells[StoreCell].value.count + o.plus)
                      ELSE o.msg
             IN  [g EXCEPT !.drains[d] =
                     [@ EXCEPT !.pc = IF o.op = "sleep" THEN 1 ELSE dr.pc + 1,
                               !.pend = m,
                               !.status = CASE o.op \in {"await", "sleep"} -> "awaiting"
                                            [] o.op = "throw" -> "threw"
                                            [] OTHER -> "yielded",
                               !.yielded = IF m = NoMsg THEN @ ELSE Append(@, m)]]

\* const effect = fx(getUntracked, msg); forkFx(effect, send): the for await loop
\* calls generator.next() before forkFx returns.
ForkFx(g, msg, send) ==
    LET g1 == [g EXCEPT !.drains = Append(@, NewDrain(g, msg, send)),
                        !.log = Append(@, Event("fx", Len(g.drains) + 1))]
    IN  Resume(g1, Len(g1.drains))

\* ------------------------------------------------- store.ts: calling send

\* The store's get, as a middleware calls it: $state.get(), a tracked read.
GetStateIn(g, fr) == [value |-> g.cells[StoreCell].value, fr |-> SignalGet(g, fr, StoreCell)]

\* A recording middleware before it calls the send it wraps: it pushes its "before"
\* entry and the state getState() returns.
MwBefore(g, mw) ==
    [g EXCEPT !.log = Append(@, Event("before", mw)),
              !.states = Append(@, g.cells[StoreCell].value)]

\* (the state captured before the call pushed a second time, in place of getState())
MwAfterSnapshot(g, mw, before) ==
    [g EXCEPT !.log = Append(@, Event("after", mw)),
              !.states = Append(@, before)]

\* A recording middleware after the send it wraps returned: it pushes its "after"
\* entry and the state getState() returns now.
MwAfter(g, mw, before) ==
    [g EXCEPT !.log = Append(@, Event("after", mw)),
              !.states = Append(@, g.cells[StoreCell].value)]

\* preventNegativeMiddleware: msg.type === "decrement" && getState() <= 0, with the
\* tracked read getState() makes when the first operand holds.
\* (the middleware calls send(msg) for every message)
PreventNegativeNever(g, fr, msg) == [stop |-> FALSE, fr |-> fr]

PreventNegative(g, fr, msg) ==
    IF msg.type = "decrement"
    THEN [stop |-> GetStateIn(g, fr).value <= 0, fr |-> GetStateIn(g, fr).fr]
    ELSE [stop |-> FALSE, fr |-> fr]

\* Calling a send function: each recording middleware does its before-logic, calls
\* the send it wraps, then does its after-logic.
\* (the effect forked before next(msg) is called)
RECURSIVE CallSendForkFirst(_, _, _, _)
CallSendForkFirst(send, g, fr, msg) ==
    IF send = <<>>
    THEN BaseSend(g, fr, msg)
    ELSE LET mw == Head(send)
         IN  CASE mw = FxBase -> BaseSendFx(g, fr, msg)
               [] mw = FxMw ->
                    CallSendForkFirst(Tail(send), ForkFx(g, msg, Tail(send)), fr, msg)
               [] mw = FxDeco ->
                    CallSendForkFirst(Tail(send), ForkFx(g, msg, send), fr, msg)
               [] OTHER ->
                    LET fr1 == GetStateIn(g, fr).fr
                        r == CallSendForkFirst(Tail(send), MwBefore(g, mw), fr1, msg)
                    IN  [g |-> MwAfter(r.g, mw, g.cells[StoreCell].value),
                         fr |-> GetStateIn(r.g, r.fr).fr]

RECURSIVE CallSend(_, _, _, _)
CallSend(send, g, fr, msg) ==
    IF send = <<>>
    THEN BaseSend(g, fr, msg)
    ELSE LET mw == Head(send)
         IN  CASE mw = AppBase -> BaseSendApp(g, fr, msg)
               [] mw = FxBase -> BaseSendFx(g, fr, msg)
               [] mw = FxMw ->
                    \* next(msg); forkFx(fx(getUntracked, msg), next)
                    LET r == CallSend(Tail(send), g, fr, msg)
                    IN  [g |-> ForkFx(r.g, msg, Tail(send)), fr |-> r.fr]
               [] mw = FxDeco ->
                    \* send(msg); forkFx(fx(peekState, msg), sendWithFx)
                    LET r == CallSend(Tail(send), g, fr, msg)
                    IN  [g |-> ForkFx(r.g, msg, send), fr |-> r.fr]
               [] mw = PreventMw ->
                    \* if (...) return; send(msg)
                    LET p == PreventNegative(g, fr, msg)
                    IN  IF p.stop
                        THEN [g |-> g, fr |-> p.fr]
                        ELSE CallSend(Tail(send), g, p.fr, msg)
               [] OTHER ->
                    LET fr1 == GetStateIn(g, fr).fr
                        r == CallSend(Tail(send), MwBefore(g, mw), fr1, msg)
                    IN  [g |-> MwAfter(r.g, mw, g.cells[StoreCell].value),
                         fr |-> GetStateIn(r.g, r.fr).fr]

\* store.send of a store created with the middleware list mws.
StoreSend(mws, g, fr, msg) == CallSend(Compose(mws, <<>>), g, fr, msg)

\* The send function of fx(testFx)(store({..., middleware: mws})): sendWithFx.
SendWithFx(mws, g, fr, msg) ==
    CallSend(<<FxDeco>> \o Compose(mws, <<FxBase>>), g, fr, msg)

\* baseSend of the parent store of the scope tests.
ParentSend(g, fr, msg) ==
    LET next == parentReducer(g.cells[ParentCell].value, msg)
    IN  [g |-> SignalSet([g EXCEPT !.applied = Append(@, [msg |-> msg, from |-> g.from])],
                         ParentCell, next),
         fr |-> SignalGet(g, fr, ParentCell)]

\* (forward tags with the parent's tag function before its own)
ScopeSendOuterFirst(g, fr, s, msg) ==
    IF ParentOf(s) \in Scopes
    THEN ParentSend(g, fr, tag(s, tag(ParentOf(s), msg)))
    ELSE ParentSend(g, fr, tag(s, msg))

\* send of scoped store s: forward(store.send, tag), that is store.send(tag(msg)).
RECURSIVE ScopeSend(_, _, _, _)
ScopeSend(g, fr, s, msg) ==
    IF ParentOf(s) \in Scopes
    THEN ScopeSend(g, fr, ParentOf(s), tag(s, msg))
    ELSE ParentSend(g, fr, tag(s, msg))

\* ------------------------------------------- signals.ts: the unsubscribe function

\* cleanup?.(): calls the cleanup held, if any; `where` is the run it is called in
\* (0: in unsubscribe).
CallCleanup(g, e, where) ==
    LET k == g.comp[e].cleanup
    IN  IF k = 0 THEN g ELSE [g EXCEPT !.calls[e][k] = Append(@, where)]

\* Watcher.unwatch: the last watched node takes the place of the removed one.
Unwatch(nodes, e) ==
    IF e \notin Range(nodes) THEN nodes
    ELSE LET n == Len(nodes)
             i == CHOOSE j \in 1..n : nodes[j] = e
         IN  [j \in 1..(n - 1) |-> IF j = i THEN nodes[n] ELSE nodes[j]]

\* The function returned by effect: w.unwatch(computed); cleanup?.(); cleanup = undefined.
Unsubscribe(g, e) ==
    LET g1 == [g EXCEPT !.watcher.producerNode = Unwatch(@, e),
                        !.unsubAt[e] = IF @ = -1 THEN g.runs[e] ELSE @]
    IN  [CallCleanup(g1, e, 0) EXCEPT !.comp[e].cleanup = 0, !.comp[e].status = "unsub"]

\* ------------------------------------------------ async-iterator.ts: mergeAsync

\* No mergeAsync call yet. A call holds the arrays its iterables were made from, what
\* each iterator has left, the pending map as its entries in insertion order, each
\* with the state of its promise ("waiting", or settled with "value" or "done"), the
\* key whose value the generator is suspended on, and the history: the values yielded
\* from each key, in order, and the calls of next() on each iterator and those that
\* settled.
NoMerge ==
    [pc |-> "none", srcs |-> <<>>, iterators |-> <<>>, pending |-> <<>>, key |-> 0,
     out |-> <<>>, calls |-> <<>>, settled |-> <<>>]

\* fromArray(arr) of the tests, for the arrays a behaviour may merge: an array of n
\* values is [1, ..., n].
Arrays == {[j \in 1..n |-> j] : n \in 0..MaxItems}

\* mergeAsync(...iterables): calling the generator function runs nothing of its body.
mergeAsync(srcs) ==
    [NoMerge EXCEPT !.pc = "created", !.srcs = srcs, !.iterators = srcs,
                    !.out = [i \in 1..Len(srcs) |-> <<>>],
                    !.calls = [i \in 1..Len(srcs) |-> 0],
                    !.settled = [i \in 1..Len(srcs) |-> 0]]

\* pending.set(key, _getNextKeyedResult(iterators[key], key)): iterator.next() is
\* called and the promise of its keyed result enters the map, at the end of the
\* insertion order.
SetPending(m, key) ==
    [m EXCEPT !.pending = Append(@, [key |-> key, state |-> "waiting", value |-> 0]),
              !.calls[key] = @ + 1]

RECURSIVE SetPendingFrom(_, _)
SetPendingFrom(m, key) ==
    IF key > Len(m.iterators) THEN m ELSE SetPendingFrom(SetPending(m, key), key + 1)

\* while (pending.size > 0) { await Promise.race(pending.values()) ...: the generator
\* awaits the race, or returns when the map is empty.
WhilePending(m) ==
    IF m.pending = <<>> THEN [m EXCEPT !.pc = "done", !.key = 0]
    ELSE [m EXCEPT !.pc = "racing", !.key = 0]

\* The promise iterator.next() returned for entry p of the map settles: with the
\* next value of the iterator, or with done when nothing is left.
SettleNext(m, p) ==
    LET key == m.pending[p].key
    IN  IF m.iterators[key] = <<>>
        THEN [m EXCEPT !.pending[p].state = "done", !.settled[key] = @ + 1]
        ELSE [m EXCEPT !.pending[p].state = "value",
                       !.pending[p].value = Head(m.iterators[key]),
                       !.iterators[key] = Tail(@),
                       !.settled[key] = @ + 1]

Without(seq, p) == SubSeq(seq, 1, p - 1) \o SubSeq(seq, p + 1, Len(seq))

\* (the resolved promise stays in the map)
RaceResolvedKeeps(m, p) ==
    IF m.pending[p].state = "value"
    THEN [m EXCEPT !.out[m.pending[p].key] = Append(@, m.pending[p].value),
                   !.pc = "yielding", !.key = m.pending[p].key]
    ELSE WhilePending([m EXCEPT !.pending = Without(@, p)])

\* The race resolved with the keyed result of entry p: pending.delete(key), then
\* the value is yielded, or for a done result the loop goes on.
RaceResolved(m, p) ==
    IF m.pending[p].state = "value"
    THEN [m EXCEPT !.pending = Without(@, p),
                   !.out[m.pending[p].key] = Append(@, m.pending[p].value),
                   !.pc = "yielding", !.key = m.pending[p].key]
    ELSE WhilePending([m EXCEPT !.pending = Without(@, p)])

\* ------------------------------------------------- the bodies given to effect()

Get(c) == [op |-> "get", cell |-> c, val |-> -1]
\* if (c.get() === v) throw new Error(), with nothing in the body to catch it
GetThrowOn(c, v) == [op |-> "get", cell |-> c, val |-> v]
\* try { if (c.get() === v) throw new Error() } catch (_) { errorThrown = true }
GetCatchOn(c, v) == [op |-> "getcatch", cell |-> c, val |-> v]
Set(c, v) == [op |-> "set", cell |-> c, val |-> v]
\* if (c.get() === v) unsubscribe(), with the unsubscribe function of reaction e
UnsubOn(c, v, e) == [op |-> "unsub", cell |-> c, val |-> v, target |-> e]
\* peek(() => c.get())
Peek(c) == [op |-> "peek", cell |-> c, val |-> -1]
\* if (c.get() === v) b.get()
GetIf(c, v, b) == [op |-> "getif", cell |-> c, val |-> v, then |-> b]
\* scoped.get() on scoped store s
GetScope(s) == [op |-> "getscope", cell |-> s, val |-> -1]
\* store.send(msg) on the store under test
SendMsg(msg) == [op |-> "send", cell |-> StoreCell, val |-> msg]

\* Reaction 1 reads the store and then the plain cell (the sum body of the batching
\* test), throws when the store's state is ThrowVal, so that the exception leaves
\* callback(), and returns a cleanup. Reaction 2 reads the store, resets
\* the plain cell and returns nothing; when the store's state is UnsubVal it first
\* calls the unsubscribe function of reaction 1, if effect() has returned it.
\* The peek reaction reads the plain cell, peeks at the other cell and reads the
\* store (the body of the peek tests, with a read after the peek). The conditional
\* reaction reads the other cell only while the plain cell holds the initial state.
\* The scope reaction reads the counter store (the body of the scope effect test).
\* The sending reaction reads the plain cell and sends a message that sets the store
\* to its initial state; it never calls store.get().
\* The catching reaction is the body of the error test: it reads the plain cell (the
\* signal count) and throws on ThrowVal inside a try block of its own, whose catch
\* sets errorThrown; no exception leaves it.
Body(e) ==
    CASE e = 1 ->
            [ops |-> <<GetThrowOn(StoreCell, ThrowVal), Get(PlainCell)>>, cleanup |-> TRUE]
      [] e = 2 ->
            [ops |-> <<UnsubOn(StoreCell, UnsubVal, 1), Set(PlainCell, 0)>>, cleanup |-> FALSE]
      [] e = PeekEffect ->
            [ops |-> <<Get(PlainCell), Peek(OtherCell), Get(StoreCell)>>, cleanup |-> FALSE]
      [] e = CondEffect ->
            [ops |-> <<GetIf(PlainCell, InitialState, OtherCell)>>, cleanup |-> FALSE]
      [] e = ScopeEffect ->
            [ops |-> <<GetScope(ScopeCounter)>>, cleanup |-> FALSE]
      [] e = CatchEffect ->
            [ops |-> <<GetCatchOn(PlainCell, ThrowVal)>>, cleanup |-> FALSE]
      [] e = DiamondEffect ->
            \* lastResult = combined.get()
            [ops |-> <<[op |-> "getnode", cell |-> Combined, val |-> -1]>>,
             cleanup |-> FALSE]
      [] OTHER ->
            [ops |-> <<Get(PlainCell), SendMsg(Msg("set", InitialState))>>,
             cleanup |-> FALSE]

\* peek(() => c.get()): Signal.subtle.untrack clears the active consumer, runs the
\* callback and restores the consumer; the value read is the cell's current one.
\* (the callback run without clearing the active consumer)
UntrackTracked(g, fr, c) == SignalGet(g, fr, c)

Untrack(g, fr, c) ==
    [SignalGet(g, [fr EXCEPT !.active = FALSE], c) EXCEPT
        !.active = fr.active, !.seen[c] = g.cells[c].value]

\* callback(): the operations of the body, in order, until one throws.
RECURSIVE Exec(_, _, _, _)
Exec(ops, i, g, fr) ==
    IF i > Len(ops) \/ fr.thrown
    THEN [g |-> g, fr |-> fr]
    ELSE LET o == ops[i]
         IN  CASE o.op = "get" ->
                    LET fr1 == SignalGet(g, fr, o.cell)
                    IN  Exec(ops, i + 1, g,
                             [fr1 EXCEPT !.thrown = (g.cells[o.cell].value = o.val)])
               [] o.op = "getcatch" ->
                    Exec(ops, i + 1,
                         IF g.cells[o.cell].value = o.val
                         THEN [g EXCEPT !.errorThrown = TRUE]
                         ELSE g,
                         SignalGet(g, fr, o.cell))
               [] o.op = "unsub" ->
                    Exec(ops, i + 1,
                         IF /\ g.cells[o.cell].value = o.val
                            /\ g.comp[o.target].status \in {"active", "unsub"}
                         THEN Unsubscribe(g, o.target)
                         ELSE g,
                         SignalGet(g, fr, o.cell))
               [] o.op = "peek" -> Exec(ops, i + 1, g, Untrack(g, fr, o.cell))
               [] o.op = "getscope" ->
                    CHOOSE x \in {Exec(ops, i + 1, r.g, r.fr) :
                                      r \in {ScopeGet(g, fr, o.cell)}} : TRUE
               [] o.op = "getnode" ->
                    CHOOSE x \in {Exec(ops, i + 1, r.g, r.fr) :
                                      r \in {CombinedGet(g, fr)}} : TRUE
               [] o.op = "send" ->
                    \* the store of the signal specifications has no middleware:
                    \* its send is baseSend
                    CHOOSE x \in {Exec(ops, i + 1, r.g, r.fr) :
                                      r \in {BaseSend(g, fr, o.val)}} : TRUE
               [] o.op = "getif" ->
                    LET fr1 == SignalGet(g, fr, o.cell)
                    IN  Exec(ops, i + 1, g,
                             IF g.cells[o.cell].value = o.val
                             THEN SignalGet(g, fr1, o.then)
                             ELSE fr1)
               [] OTHER -> Exec(ops, i + 1, SignalSet(g, o.cell, o.val), fr)

\* ------------------------------------------------------------ signals.ts

FreshComputed ==
    [status |-> "none", dirty |-> TRUE, value |-> "UNSET",
     producerNode |-> <<>>, producerLastReadVersion |-> <<>>, cleanup |-> 0]

\* (the producers of the previous run are kept next to those of this run)
ComputationKeepsEdges(g, e) ==
    LET n == g.runs[e] + 1
        g1 == [CallCleanup(g, e, n) EXCEPT !.runs[e] = n, !.calls[e] = Append(@, <<>>),
                                           !.order = Append(@, e)]
    IN  CHOOSE x \in
            {LET old == SelectSeq(g.comp[e].producerNode,
                                  LAMBDA c : c \notin Range(r.fr.prod))
             IN  [r.g EXCEPT !.comp[e].dirty = FALSE,
                             !.comp[e].value = IF r.fr.thrown THEN "ERRORED" ELSE "OK",
                             !.comp[e].producerNode = r.fr.prod \o old,
                             !.comp[e].producerLastReadVersion =
                                 r.fr.ver \o [i \in 1..Len(old) |-> NodeVersion(r.g, old[i])],
                             !.comp[e].cleanup =
                                 IF r.fr.thrown THEN @ ELSE IF Body(e).cleanup THEN n ELSE 0,
                             !.seen[e] = r.fr.seen] :
                r \in {Exec(Body(e).ops, 1, g1, NewFrame)}} : TRUE

\* The computation of the effect's Computed: cleanup?.(); cleanup = callback().
\* The polyfill replaces the producers by those read, caches an exception as the
\* value and clears dirty afterwards. (Here and below an intermediate result is
\* bound as the one element of a set, so that it is computed once.)
Computation(g, e) ==
    LET n == g.runs[e] + 1
        g1 == [CallCleanup(g, e, n) EXCEPT !.runs[e] = n, !.calls[e] = Append(@, <<>>),
                                           !.order = Append(@, e)]
    IN  CHOOSE x \in
            {[r.g EXCEPT !.comp[e].dirty = FALSE,
                         !.comp[e].value = IF r.fr.thrown THEN "ERRORED" ELSE "OK",
                         !.comp[e].producerNode = r.fr.prod,
                         !.comp[e].producerLastReadVersion = r.fr.ver,
                         !.comp[e].cleanup =
                             IF r.fr.thrown THEN @ ELSE IF Body(e).cleanup THEN n ELSE 0,
                         !.seen[e] = r.fr.seen] :
                r \in {Exec(Body(e).ops, 1, g1, NewFrame)}} : TRUE

\* consumerPollProducersForChange, from producer i on: a producer's version differs
\* from the one read, either at once or after the producer, when it is a Computed,
\* was brought up to date.
RECURSIVE PollFrom(_, _, _)
PollFrom(g, e, i) ==
    IF i > Len(g.comp[e].producerNode)
    THEN [g |-> g, changed |-> FALSE]
    ELSE LET n == g.comp[e].producerNode[i]
             seenVersion == g.comp[e].producerLastReadVersion[i]
         IN  IF seenVersion # NodeVersion(g, n)
             THEN [g |-> g, changed |-> TRUE]
             ELSE CHOOSE x \in
                      {IF seenVersion # NodeVersion(g1, n)
                       THEN [g |-> g1, changed |-> TRUE]
                       ELSE PollFrom(g1, e, i + 1) :
                           g1 \in {CASE n \in Scopes -> DerivedUpdate(g, n)
                                     [] n = Combined -> CombinedUpdate(g)
                                     [] OTHER -> g}} : TRUE

PollProducersForChange(g, e) == PollFrom(g, e, 1)

\* computed.get() outside any tracking context: a clean live computed returns its
\* cached value; a dirty one is re-evaluated when it has no value yet or a producer
\* changed; a cached exception is rethrown.
ComputedGet(g, e) ==
    CHOOSE x \in
        {[g |-> g1, threw |-> g1.comp[e].value = "ERRORED",
          ran |-> g1.runs[e] # g.runs[e]] :
            g1 \in {IF ~g.comp[e].dirty THEN g
                    ELSE IF g.comp[e].value = "UNSET" THEN Computation(g, e)
                    ELSE CHOOSE y \in
                             {IF p.changed THEN Computation(p.g, e)
                              ELSE [p.g EXCEPT !.comp[e].dirty = FALSE] :
                                  p \in {PollProducersForChange(g, e)}} : TRUE}} : TRUE

\* (the pending computeds taken from the last watched to the first)
GetPendingReversed(g) ==
    LET p == SelectSeq(g.watcher.producerNode, LAMBDA e : g.comp[e].dirty)
    IN  [i \in 1..Len(p) |-> p[Len(p) + 1 - i]]

\* w.getPending(): the watched computeds that are dirty, in the Watcher's order.
GetPending(g) ==
    SelectSeq(g.watcher.producerNode, LAMBDA e : g.comp[e].dirty)

\* for (const s of w.getPending()) s.get(): an exception leaves the loop.
RECURSIVE GetAll(_, _, _, _)
GetAll(pending, i, g, ran) ==
    IF i > Len(pending)
    THEN [g |-> g, threw |-> FALSE, ran |-> ran]
    ELSE CHOOSE x \in
             {LET ran1 == IF r.ran THEN ran \cup {pending[i]} ELSE ran
              IN  IF r.threw
                  THEN [g |-> r.g, threw |-> TRUE, ran |-> ran1]
                  ELSE GetAll(pending, i + 1, r.g, ran1) :
                 r \in {ComputedGet(g, pending[i])}} : TRUE

\* processPending: needsEnqueue = true; the loop; w.watch(), which clears the
\* Watcher's dirty flag and is not reached when the loop throws.
ProcessPending(g) ==
    LET g1 == [g EXCEPT !.needsEnqueue = TRUE, !.order = <<>>]
        pending == GetPending(g1)
    IN  CHOOSE x \in
            {[g |-> IF r.threw THEN r.g ELSE [r.g EXCEPT !.watcher.dirty = FALSE],
              pending |-> pending, ran |-> r.ran, threw |-> r.threw] :
                r \in {GetAll(pending, 1, g1, {})}} : TRUE

\* effect(callback): a new Computed, w.watch(computed), computed.get(). When the
\* first run throws, effect throws and no unsubscribe function is returned.
\* (without computed.get(): the body waits for the first flush)
EffectCreateLazy(g, e) ==
    [g EXCEPT !.comp[e] = [FreshComputed EXCEPT !.status = "active"],
              !.watcher.dirty = FALSE,
              !.watcher.producerNode = Append(@, e)]

EffectCreate(g, e) ==
    LET g1 == [g EXCEPT !.comp[e] = FreshComputed,
                        !.watcher.dirty = FALSE,
                        !.watcher.producerNode = Append(@, e)]
    IN  CHOOSE x \in
            {[r.g EXCEPT !.comp[e].status = IF r.threw THEN "leaked" ELSE "active"] :
                r \in {ComputedGet(g1, e)}} : TRUE

\* ---------------------------------------------------------------- actions

Last(op, e, again, pending, ran, threw, wrote) ==
    [op |-> op, e |-> e, again |-> again, pending |-> pending, ran |-> ran,
     threw |-> threw, wrote |-> wrote]

InRange(v) == v \in 0..MaxVal

\* The lists of distinct recording middlewares a store can be created with, of the
\* recording middlewares 1..MaxMw of the store tests (middleware1, middleware2, ...).
MwLists ==
    {l \in UNION {[1..n -> 1..MaxMw] : n \in 0..MaxMw} :
        \A i, j \in 1..Len(l) : i # j => l[i] # l[j]}

\* The state after construction, with the store under test created on state.
InitWith(state) ==
    /\ cells = [c \in Cells \cup {ParentCell} |->
                   [value |-> CASE c = ParentCell -> ParentInit
                                [] c = StoreCell -> state
                                [] OTHER -> InitialState,
                    version |-> 0]]
    /\ comp = [e \in Effects |-> FreshComputed]
    /\ derived = [s \in Scopes |-> FreshDerived]
    /\ diamond = [n \in DiamondNodes |-> FreshNode]
    /\ watcher = [dirty |-> FALSE, producerNode |-> <<>>]
    /\ needsEnqueue = TRUE
    /\ microtasks = 0
    /\ log = <<>>
    /\ states = <<>>
    /\ drains = <<>>
    /\ unknown = <<>>
    /\ warnings = <<>>
    /\ applied = <<>>
    /\ sent = <<>>
    /\ got = InitialState
    /\ runs = [e \in Effects |-> 0]
    /\ seen = [e \in Effects |-> [c \in Cells \cup Scopes \cup DiamondNodes |-> -1]]
    /\ calls = [e \in Effects |-> <<>>]
    /\ unsubAt = [e \in Effects |-> -1]
    /\ order = <<>>
    /\ written = <<>>
    /\ errorThrown = FALSE
    /\ merge = NoMerge
    /\ writes = 0
    /\ last = Last("init", 0, FALSE, <<>>, {}, FALSE, FALSE)

\* store.send(msg) from outside any reaction, on the store under test.
SendRecorded(msg) ==
    /\ writes < MaxWrites
    /\ InRange(update(cells[StoreCell].value, msg))
    /\ \E g \in {StoreSend(middleware, [Cur EXCEPT !.log = <<>>, !.states = <<>>, !.unknown = <<>>], NoFrame, msg).g} : Commit(g)
    /\ sent' = Append(sent, msg)
    /\ writes' = writes + 1
    /\ last' = Last("send", 0, FALSE, <<>>, {}, FALSE, FALSE)
    /\ UNCHANGED <<middleware, decorated, got>>

\* store.send(msg) from outside on the store whose reducer sends.
SendNesting(msg) ==
    /\ writes < MaxWrites
    /\ \E g \in {BaseSendNesting([Cur EXCEPT !.written = <<>>], NoFrame, msg).g} : Commit(g)
    /\ sent' = Append(sent, msg)
    /\ writes' = writes + 1
    /\ last' = Last("send", 0, FALSE, <<>>, {}, FALSE, FALSE)
    /\ UNCHANGED <<middleware, decorated, got>>

\* store.get() from outside any reaction.
GetState ==
    /\ got' = cells[StoreCell].value
    /\ last' = Last("get", 0, FALSE, <<>>, {}, FALSE, FALSE)
    /\ Commit(Cur)
    /\ UNCHANGED <<middleware, decorated, sent, writes>>

\* store.send(msg) from outside any reaction, with reactions subscribed.
Send(msg) ==
    /\ writes < MaxWrites
    /\ InRange(update(cells[StoreCell].value, msg))
    /\ \E g \in {StoreSend(middleware, [Cur EXCEPT !.log = <<>>, !.states = <<>>, !.unknown = <<>>], NoFrame, msg).g} : Commit(g)
    /\ writes' = writes + 1
    /\ last' = Last("send", 0, FALSE, <<>>, {}, FALSE, FALSE)
    /\ UNCHANGED <<middleware, decorated, sent, got>>

\* cell.set(v) on the plain signal, from outside any reaction.
SetCell(v) ==
    /\ writes < MaxWrites
    /\ \E g \in {SignalSet(Cur, PlainCell, v)} : Commit(g)
    /\ writes' = writes + 1
    /\ last' = Last("set", 0, FALSE, <<>>, {}, FALSE, FALSE)
    /\ UNCHANGED <<middleware, decorated, sent, got>>

\* c.set(v) on a plain signal, from outside any reaction.
SetSignal(c, v) ==
    /\ writes < MaxWrites
    /\ \E g \in {SignalSet(Cur, c, v)} :
           /\ Commit(g)
           /\ last' = Last("set", c, FALSE, <<>>, {}, FALSE, g.wrote)
    /\ writes' = writes + 1
    /\ UNCHANGED <<middleware, decorated, sent, got>>

\* parentStore.send(msg) from outside; the counter is capped. In the scope
\* specification `sent` and `applied` hold the messages of the last send only, and
\* `last.pending` the reactions that were marked already when the message was sent.
SendParent(msg) ==
    /\ writes < MaxWrites
    /\ \E g \in {ParentSend([Cur EXCEPT !.applied = <<>>], NoFrame, msg).g} :
           /\ InRange(g.cells[ParentCell].value.child.counter)
           /\ Commit(g)
           /\ last' = Last("send", 0, FALSE, GetPending(Cur), {}, FALSE, g.wrote)
    /\ sent' = <<msg>>
    /\ writes' = writes + 1
    /\ UNCHANGED <<middleware, decorated, got>>

\* scoped.send(msg) from outside, on scoped store s.
SendScoped(s, msg) ==
    /\ writes < MaxWrites
    /\ \E g \in {ScopeSend([Cur EXCEPT !.applied = <<>>, !.from = s], NoFrame, s, msg).g} :
           /\ InRange(g.cells[ParentCell].value.child.counter)
           /\ Commit(g)
           /\ last' = Last("send", s, FALSE, GetPending(Cur), {}, FALSE, g.wrote)
    /\ sent' = <<msg>>
    /\ writes' = writes + 1
    /\ UNCHANGED <<middleware, decorated, got>>

\* scoped.get() from outside any reaction, on scoped store s.
GetScoped(s) ==
    /\ \E r \in {ScopeGet(Cur, NoFrame, s)} :
           /\ Commit(r.g)
           /\ got' = r.value
    /\ last' = Last("get", s, FALSE, <<>>, {}, FALSE, FALSE)
    /\ UNCHANGED <<middleware, decorated, sent, writes>>

\* effect(Body(e)) is called.
CreateEffect(e) ==
    /\ comp[e].status = "none"
    /\ \E g \in {EffectCreate(Cur, e)} :
           /\ Commit(g)
           /\ last' = Last("effect", e, FALSE, <<>>, {e}, g.comp[e].status = "leaked", g.wrote)
    /\ UNCHANGED <<middleware, decorated, sent, got, writes>>

\* The function returned by effect(Body(e)) is called (again, when status is "unsub").
CallUnsubscribe(e) ==
    /\ comp[e].status \in {"active", "unsub"}
    /\ \E g \in {Unsubscribe(Cur, e)} : Commit(g)
    /\ last' = Last("unsub", e, comp[e].status = "unsub", <<>>, {}, FALSE, FALSE)
    /\ UNCHANGED <<middleware, decorated, sent, got, writes>>

\* The event loop runs a queued processPending microtask.
Flush ==
    /\ microtasks > 0
    /\ \E r \in {ProcessPending([Cur EXCEPT !.microtasks = @ - 1])} :
           /\ Commit(r.g)
           /\ last' = Last("flush", 0, FALSE, r.pending, r.ran, r.threw, r.g.wrote)
    /\ UNCHANGED <<middleware, decorated, sent, got, writes>>

\* store.send(msg) from outside on a store whose middleware may stop the message;
\* the counter is capped from above only.
SendFiltered(msg) ==
    /\ writes < MaxWrites
    /\ \E g \in {StoreSend(middleware,
                           [Cur EXCEPT !.log = <<>>, !.states = <<>>, !.unknown = <<>>],
                           NoFrame, msg).g} :
           /\ g.cells[StoreCell].value <= MaxVal
           /\ Commit(g)
    /\ sent' = Append(sent, msg)
    /\ writes' = writes + 1
    /\ last' = Last("send", 0, FALSE, <<>>, {}, FALSE, FALSE)
    /\ UNCHANGED <<middleware, decorated, got>>

\* The number of reducer calls recorded in a log.
ReducerCalls(l) == Cardinality({i \in 1..Len(l) : l[i] = Event("reducer", 0)})

\* forkFx, one turn of its loop after the generator yielded: send(msg) with the
\* send function forkFx was given, then generator.next().
\* (generator.next() without send(msg))
ForkFxSendLost(g, d) == Resume(g, d)

\* (send(msg) for the first message only, without a loop)
ForkFxSendOnce(g, d) ==
    LET dr == g.drains[d]
        r == CallSend(dr.send, [g EXCEPT !.from = d], NoFrame, dr.pend).g
        n == ReducerCalls(r.log)
    IN  [r EXCEPT !.drains[d].delivered = @ \o [i \in 1..n |-> dr.pend],
                  !.drains[d].status = "done",
                  !.drains[d].pend = NoMsg,
                  !.applied = @ \o [i \in 1..n |-> [msg |-> dr.pend, from |-> d]]]

ForkFxSend(g, d) ==
    LET dr == g.drains[d]
        r == CallSend(dr.send, [g EXCEPT !.from = d], NoFrame, dr.pend).g
        n == ReducerCalls(r.log)
    IN  Resume([r EXCEPT !.drains[d].delivered = @ \o [i \in 1..n |-> dr.pend],
                         !.applied = @ \o [i \in 1..n |-> [msg |-> dr.pend, from |-> d]]], d)

\* forkFx, its catch block: console.warn("Error in fx", error).
\* (the catch restores the state the effect started from)
ForkFxCatchRollback(g, d) ==
    [g EXCEPT !.drains[d].status = "errored", !.warnings = Append(@, d),
              !.cells[StoreCell].value = g.drains[d].born]

\* (the error swallowed without the warning)
ForkFxCatchSilent(g, d) == [g EXCEPT !.drains[d].status = "errored"]

ForkFxCatch(g, d) ==
    [g EXCEPT !.drains[d].status = "errored", !.warnings = Append(@, d)]

\* send(msg) from outside on the store with managed effects.
\* (a send ends the drains in flight)
FxSendCancels(msg) ==
    /\ writes < MaxDispatch
    /\ \E g \in {[Cur EXCEPT !.log = <<>>, !.states = <<>>, !.unknown = <<>>]} :
       \E r \in {IF decorated
                 THEN SendWithFx(middleware, g, NoFrame, msg).g
                 ELSE CallSend(Compose(middleware, <<FxBase>>), g, NoFrame, msg).g} :
           Commit([r EXCEPT !.applied =
                      @ \o [i \in 1..ReducerCalls(r.log) |-> [msg |-> msg, from |-> 0]],
                   !.drains = [d \in 1..Len(r.drains) |->
                                 IF d <= Len(drains) /\ drains[d].status \in {"awaiting", "yielded"}
                                 THEN [r.drains[d] EXCEPT !.status = "done"]
                                 ELSE r.drains[d]]])
    /\ sent' = Append(sent, msg)
    /\ writes' = writes + 1
    /\ last' = Last("send", 0, FALSE, <<>>, {}, FALSE, FALSE)
    /\ UNCHANGED <<middleware, decorated, got>>

\* (forkFx hands a message the generator yields at once to send before the
\* send that started it returns)
FxSendDelivers(msg) ==
    /\ writes < MaxDispatch
    /\ \E g \in {[Cur EXCEPT !.log = <<>>, !.states = <<>>, !.unknown = <<>>]} :
       \E r \in {IF decorated
                 THEN SendWithFx(middleware, g, NoFrame, msg).g
                 ELSE CallSend(Compose(middleware, <<FxBase>>), g, NoFrame, msg).g} :
       \E q \in {[r EXCEPT !.applied =
                      @ \o [i \in 1..ReducerCalls(r.log) |-> [msg |-> msg, from |-> 0]]]} :
           Commit(IF Len(q.drains) > 0 /\ q.drains[Len(q.drains)].status = "yielded"
                  THEN ForkFxSend(q, Len(q.drains))
                  ELSE q)
    /\ sent' = Append(sent, msg)
    /\ writes' = writes + 1
    /\ last' = Last("send", 0, FALSE, <<>>, {}, FALSE, FALSE)
    /\ UNCHANGED <<middleware, decorated, got>>

FxSend(msg) ==
    /\ writes < MaxDispatch
    /\ \E g \in {[Cur EXCEPT !.log = <<>>, !.states = <<>>, !.unknown = <<>>]} :
       \E r \in {IF decorated
                 THEN SendWithFx(middleware, g, NoFrame, msg).g
                 ELSE CallSend(Compose(middleware, <<FxBase>>), g, NoFrame, msg).g} :
           Commit([r EXCEPT !.applied =
                      @ \o [i \in 1..ReducerCalls(r.log) |-> [msg |-> msg, from |-> 0]]])
    /\ sent' = Append(sent, msg)
    /\ writes' = writes + 1
    /\ last' = Last("send", 0, FALSE, <<>>, {}, FALSE, FALSE)
    /\ UNCHANGED <<middleware, decorated, got>>

\* The event loop continues forkFx call d: the awaited promise of its generator
\* resolved, or the promise of generator.next() settled.
DrainStep(d) ==
    /\ d \in 1..Len(drains)
    /\ drains[d].status \in {"awaiting", "yielded", "threw"}
    /\ \E g \in {[Cur EXCEPT !.log = <<>>, !.states = <<>>, !.unknown = <<>>]} :
       \E r \in {CASE drains[d].status = "awaiting" -> Resume(g, d)
                   [] drains[d].status = "yielded" -> ForkFxSend(g, d)
                   [] OTHER -> ForkFxCatch(g, d)} :
           Commit(r)
    /\ last' = Last("drain", d, FALSE, <<>>, {}, drains[d].status = "threw", FALSE)
    /\ UNCHANGED <<middleware, decorated, sent, got, writes>>

\* send(msg) from outside on the clock store, fx(clockFx)(store(appReducer, ...)).
ClockSend(msg) ==
    /\ writes < MaxClockSends
    /\ Len(applied) < MaxApplied
    /\ \E g \in {[Cur EXCEPT !.log = <<>>, !.states = <<>>, !.unknown = <<>>]} :
       \E r \in {CallSend(<<FxDeco, AppBase>>, g, NoFrame, msg).g} :
           Commit([r EXCEPT !.applied =
                      @ \o [i \in 1..ReducerCalls(r.log) |-> [msg |-> msg, from |-> 0]]])
    /\ sent' = Append(sent, msg)
    /\ writes' = writes + 1
    /\ last' = Last("send", 0, FALSE, <<>>, {}, FALSE, FALSE)
    /\ UNCHANGED <<middleware, decorated, got>>

\* The event loop continues a forkFx call of the clock store.
ClockStep(d) == Len(applied) < MaxApplied /\ DrainStep(d)

\* mergeAsync(...iterables) is called with iterables made from arrays.
MergeCall(srcs) ==
    /\ merge.pc = "none"
    /\ Commit([Cur EXCEPT !.merge = mergeAsync(srcs)])
    /\ last' = Last("merge", 0, FALSE, <<>>, {}, FALSE, FALSE)
    /\ UNCHANGED <<middleware, decorated, sent, got, writes>>

\* The consumer (collectAll, for await) calls next() on the merged iterator: the
\* first call runs the body to its first await; a call while the generator is
\* suspended at its yield queues the next value of the same iterator, and the loop
\* goes on.
MergeNext ==
    /\ merge.pc \in {"created", "yielding"}
    /\ Commit([Cur EXCEPT !.merge = IF merge.pc = "created"
                                    THEN WhilePending(SetPendingFrom(merge, 1))
                                    ELSE WhilePending(SetPending(merge, merge.key))])
    /\ last' = Last("next", 0, FALSE, <<>>, {}, FALSE, FALSE)
    /\ UNCHANGED <<middleware, decorated, sent, got, writes>>

\* An iterator settles the promise of a next() call.
MergeSettle(p) ==
    /\ p \in 1..Len(merge.pending)
    /\ merge.pending[p].state = "waiting"
    /\ Commit([Cur EXCEPT !.merge = SettleNext(merge, p)])
    /\ last' = Last("settle", merge.pending[p].key, FALSE, <<>>, {}, FALSE, FALSE)
    /\ UNCHANGED <<middleware, decorated, sent, got, writes>>

\* Promise.race resolves with a settled promise of the map and the generator goes
\* on to its yield, its next await or its end.
MergeRace(p) ==
    /\ merge.pc = "racing"
    /\ p \in 1..Len(merge.pending)
    /\ merge.pending[p].state # "waiting"
    /\ Commit([Cur EXCEPT !.merge = RaceResolved(merge, p)])
    /\ last' = Last("race", merge.pending[p].key, FALSE, <<>>, {}, FALSE, FALSE)
    /\ UNCHANGED <<middleware, decorated, sent, got, writes>>

\* ----------------------------------------------------------- specifications

\* A store without middleware and no reaction: sends and reads from outside, with
\* the history of the messages sent.
InitStore == InitWith(InitialState) /\ middleware = <<>> /\ decorated = FALSE

NextStore == (\E msg \in Msgs : SendRecorded(msg)) \/ GetState

SpecStore == InitStore /\ [][NextStore]_vars

\* The messages sent to the store whose reducer sends.
NestMsgs ==
    {Msg("increment", 0), Msg("add", 2), Msg("relay", 1), Msg("relay", 2),
     Msg("chain", 1), Msg("chain", 2)}

\* A store without middleware whose reducer calls send: sends and reads from outside.
NextNesting == (\E msg \in NestMsgs : SendNesting(msg)) \/ GetState

SpecNesting == InitStore /\ [][NextNesting]_vars

\* A store created with a list of recording middlewares.
InitMiddleware == InitWith(InitialState) /\ middleware \in MwLists /\ decorated = FALSE

NextMiddleware == (\E msg \in Msgs : Send(msg)) \/ GetState

SpecMiddleware == InitMiddleware /\ [][NextMiddleware]_vars

\* The messages sent to the store while reactions are subscribed.
StepMsgs == {Msg("increment", 0), Msg("decrement", 0), Msg("noop", 0)}

\* A store without middleware, a plain signal and the reactions reading them.
InitSignals == InitWith(InitialState) /\ middleware = <<>> /\ decorated = FALSE

NextSignals ==
    \/ \E msg \in StepMsgs : Send(msg)
    \/ \E v \in 0..MaxVal : SetCell(v)
    \/ \E e \in BatchEffects : CreateEffect(e)
    \/ \E e \in BatchEffects : CallUnsubscribe(e)
    \/ Flush

SpecSignals == InitSignals /\ [][NextSignals]_vars

\* A store without middleware, two plain signals and the reactions of the tracking
\* tests: writes from outside, in any order with the flushes.
NextDeps ==
    \/ \E msg \in {Msg("increment", 0)} : Send(msg)
    \/ \E c \in {PlainCell, OtherCell}, v \in 0..MaxVal : SetSignal(c, v)
    \/ \E e \in {PeekEffect, CondEffect} : CreateEffect(e)
    \/ Flush

SpecDeps == InitSignals /\ [][NextDeps]_vars

\* A store without middleware, a plain signal and the reaction that sends to the
\* store from its body: increments and writes from outside, and the flushes.
NextSendInBody ==
    \/ Send(Msg("increment", 0))
    \/ \E v \in 0..MaxVal : SetSignal(PlainCell, v)
    \/ CreateEffect(SendEffect)
    \/ GetState
    \/ Flush

SpecSendInBody == InitSignals /\ [][NextSendInBody]_vars

\* The messages of the scope tests: those sent to the parent store, and those sent
\* to each scoped store.
ParentMsgs ==
    {Msg("increment_counter", 0), Msg("set_counter", InitialState),
     Msg("set_name", 1), Msg("noop", 0)}

ScopeMsgs(s) ==
    CASE s = ScopeCounter -> {Msg("increment", 0), Msg("set", InitialState + 1)}
      [] s = ScopeChild -> {Msg("child_increment", 0)}
      [] OTHER -> {Msg("set_name", 1)}

\* A parent store without middleware and its three scoped stores, none of them
\* read by a reaction.
NextScope ==
    \/ \E msg \in ParentMsgs : SendParent(msg)
    \/ \E s \in Scopes : \E msg \in ScopeMsgs(s) : SendScoped(s, msg)
    \/ \E s \in Scopes : GetScoped(s)

SpecScope == InitSignals /\ [][NextScope]_vars

\* The parent store, the counter store and a reaction that reads the counter store
\* (the effect test of the scope tests, with messages that leave the counter alone).
NextScopeEffect ==
    \/ \E msg \in ParentMsgs : SendParent(msg)
    \/ SendScoped(ScopeCounter, Msg("increment", 0))
    \/ GetScoped(ScopeCounter)
    \/ CreateEffect(ScopeEffect)
    \/ CallUnsubscribe(ScopeEffect)
    \/ Flush

SpecScopeEffect == InitSignals /\ [][NextScopeEffect]_vars

\* A store created with preventNegativeMiddleware, alone or with a recording
\* middleware listed before or after it.
InitPrevent ==
    /\ InitWith(InitialState)
    /\ decorated = FALSE
    /\ middleware \in {<<PreventMw>>, <<1, PreventMw>>, <<PreventMw, 1>>}

NextPrevent == (\E msg \in StepMsgs : SendFiltered(msg)) \/ GetState

SpecPrevent == InitPrevent /\ [][NextPrevent]_vars

\* The messages sent from outside to the store with managed effects.
FxMsgs ==
    {Msg("async_increment", 0), Msg("async_error", 0), Msg("error", 0),
     Msg("async_start", 0), Msg("yield_error", 0), Msg("increment", 0)}

\* store({ state: { count: 0, loading: false }, update: counterReducer, middleware:
\* [.., fx(testFx), ..] }) with the fx middleware and at most one recording
\* middleware, and fx(testFx)(store({...})) of middleware/fx.ts. The id of the state
\* object stands for its reference, as in ParentInit.
InitFx ==
    /\ InitWith([id |-> 0, count |-> InitialState, loading |-> FALSE])
    /\ \/ decorated = FALSE /\ middleware \in {<<FxMw>>, <<1, FxMw>>, <<FxMw, 1>>}
       \/ decorated = TRUE /\ middleware \in {<<>>, <<1>>}

NextFx ==
    \/ \E msg \in FxMsgs : FxSend(msg)
    \/ \E d \in 1..Len(drains) : DrainStep(d)

SpecFx == InitFx /\ [][NextFx]_vars

\* The error test: the signal count written from outside, the reaction whose body
\* catches its own exception, the flushes and the cleanup the test calls at its end.
NextCatch ==
    \/ \E v \in 0..MaxVal : SetSignal(PlainCell, v)
    \/ CreateEffect(CatchEffect)
    \/ CallUnsubscribe(CatchEffect)
    \/ Flush

SpecCatch == InitSignals /\ [][NextCatch]_vars

\* Two plain signals, the computeds sum, product and combined over them and the
\* reaction that reads combined: writes from outside, in any order with the flushes.
\* The values written include -1: with a cell at -1, combined is -1 whatever the
\* other cell holds, and product is -0 when the other cell holds 0.
NextDiamond ==
    \/ \E c \in {PlainCell, OtherCell}, v \in -1..MaxVal : SetSignal(c, v)
    \/ CreateEffect(DiamondEffect)
    \/ CallUnsubscribe(DiamondEffect)
    \/ Flush

SpecDiamond == InitSignals /\ [][NextDiamond]_vars

\* mergeAsync over up to MaxSources iterables made from arrays, consumed to its end.
NextMerge ==
    \/ \E srcs \in UNION {[1..n -> Arrays] : n \in 0..MaxSources} : MergeCall(srcs)
    \/ MergeNext
    \/ \E p \in 1..MaxSources : MergeSettle(p)
    \/ \E p \in 1..MaxSources : MergeRace(p)

SpecMerge == InitStore /\ [][NextMerge]_vars

\* The consumer keeps calling next() and every promise settles: a step of the merge
\* that can be taken (the generator was created and has not returned) is not
\* postponed forever.
SpecMergeFair ==
    SpecMerge /\ ([]<>(merge.pc \in {"none", "done"}) \/ []<><<merge' # merge>>_vars)

\* The clock store: the clock started and stopped from outside, and the event loop
\* running the forkFx calls.
InitClock == InitWith(InitialState) /\ middleware = <<>> /\ decorated = TRUE

NextClock ==
    \/ \E msg \in {Msg("start-clock", 0), Msg("stop-clock", 0)} : ClockSend(msg)
    \/ \E d \in 1..Len(drains) : ClockStep(d)

SpecClock == InitClock /\ [][NextClock]_vars

\* One send starts at most this many drains: in the decorated store the effect is
\* invoked for the message and for every message its drains send.
MaxDrains == 4 * MaxDispatch

\* The event loop runs every continuation that is ready: a forkFx call that can
\* continue is not postponed forever. This is weak fairness of DrainStep(d), stated
\* with the condition under which DrainStep(d) is enabled: drain d exists and is
\* awaiting, has yielded or has thrown; only DrainStep(d) changes drains[d].
FairDrain(d) ==
    \/ []<>(~(d \in 1..Len(drains) /\ drains[d].status \in {"awaiting", "yielded", "threw"}))
    \/ []<><<d \in 1..Len(drains) /\ drains'[d] # drains[d]>>_vars

SpecFxFair == SpecFx /\ \A d \in 1..MaxDrains : FairDrain(d)

\* ------------------------------------------------------------------ claims

RECURSIVE FoldLeft(_, _)
FoldLeft(state, msgs) ==
    IF msgs = <<>> THEN state ELSE FoldLeft(update(state, Head(msgs)), Tail(msgs))

\* C1: in a store without middleware the state, and the value get() returns, is the
\* left fold of the reducer over the messages sent so far, starting from the initial
\* state; a step that is not a send leaves the state as it was.
C1_StateIsFoldOfSent ==
    /\ [](middleware = <<>> =>
            /\ cells[StoreCell].value = FoldLeft(InitialState, sent)
            /\ last.op = "get" => got = FoldLeft(InitialState, sent))
    /\ [][last'.op # "send" => cells' = cells]_vars

C1_Witness ==
    /\ middleware = <<>>
    /\ Len(sent) = 3
    /\ last.op = "get"
    /\ got = 2

Reverse(s) == [i \in 1..Len(s) |-> s[Len(s) + 1 - i]]

Befores(mws) == [i \in 1..Len(mws) |-> Event("before", mws[i])]
Afters(mws) == [i \in 1..Len(mws) |-> Event("after", mws[i])]

\* C2 as stated: with the list [A, B] one send visits A-before, B-before, the
\* reducer, B-after, A-after.
C2_FirstListedOutermost ==
    (last.op = "send" /\ Len(middleware) = 2) =>
        log = Befores(middleware) \o <<Event("reducer", 0)>> \o Afters(Reverse(middleware))

\* C2 amended: with the list [A, B] one send visits B-before, A-before, the reducer,
\* A-after, B-after: the last-listed middleware is outermost.
C2_LastListedOutermost ==
    (last.op = "send" /\ Len(middleware) = 2) =>
        log = <<Event("before", middleware[2]), Event("before", middleware[1]),
                Event("reducer", 0),
                Event("after", middleware[1]), Event("after", middleware[2])>>

C2_Witness ==
    /\ last.op = "send"
    /\ middleware = <<1, 2>>
    /\ Len(log) = 5

\* C3: with the list [m1, ..., mn] one send runs the before-logic from mn down to m1,
\* then the reducer, then the after-logic from m1 up to mn.
C3_OnionOrder ==
    last.op = "send" =>
        log = Befores(Reverse(middleware)) \o <<Event("reducer", 0)>> \o Afters(middleware)

C3_Witness ==
    /\ last.op = "send"
    /\ Len(middleware) = 3
    /\ log[1] = Event("before", middleware[3])
    /\ log[7] = Event("after", middleware[3])

\* A producer of reaction e was written since e last read it.
Stale(e) == PollProducersForChange(Cur, e).changed

\* Reaction e's dependencies were written at least twice since e last read them.
WrittenTwice(e) ==
    LET gap(i) == cells[comp[e].producerNode[i]].version - comp[e].producerLastReadVersion[i]
        idx == 1..Len(comp[e].producerNode)
    IN  \/ \E i \in idx : gap(i) >= 2
        \/ \E i, j \in idx :
              comp[e].producerNode[i] # comp[e].producerNode[j] /\ gap(i) >= 1 /\ gap(j) >= 1

\* C4: a flush re-runs a subscribed reaction whose dependencies were written several
\* times since its last run exactly once, and the re-run reads the value each cell
\* has in that flush; no flush runs a reaction twice.
C4_OneRerunPerBatch ==
    [][last'.op = "flush" =>
        \A e \in Effects :
            /\ runs'[e] <= runs[e] + 1
            /\ (IsWatched(Cur, e) /\ WrittenTwice(e)) =>
                /\ runs'[e] = runs[e] + 1
                /\ \A c \in Cells : seen'[e][c] \in {-1, cells[c].value, cells'[c].value}]_vars

\* C5: set and send never run a reaction body; a reaction is re-run only by the
\* flush that a microtask executes.
C5_RerunOnlyInFlush ==
    [][/\ last'.op \in {"set", "send"} => runs' = runs
       /\ \A e \in Effects : (runs[e] >= 1 /\ runs'[e] # runs[e]) => last'.op = "flush"]_vars

C5_Witness ==
    /\ last.op = "send"
    /\ microtasks = 1
    /\ \E e \in Effects :
          /\ IsWatched(Cur, e)
          /\ comp[e].dirty
          /\ StoreCell \in Range(comp[e].producerNode)
          /\ runs[e] = 1

\* C6: every reaction pending at the start of a flush is re-run in that flush, also
\* when the body of one of them throws.
C6_SiblingsStillRun ==
    last.op = "flush" => \A e \in Range(last.pending) : e \in last.ran

\* C7: after a flush in which a body threw, a write to a dependency of a subscribed
\* reaction schedules a flush again.
C7_WriteAfterThrowSchedules ==
    [][(/\ last.op = "flush"
        /\ last.threw
        /\ last'.op \in {"set", "send"}
        /\ \E e \in Effects :
              /\ IsWatched(Cur, e)
              /\ \E c \in Range(comp[e].producerNode) : cells'[c] # cells[c])
       => microtasks' > 0]_vars

\* C8: after a flush in which a body wrote a cell and none threw, every subscribed
\* reaction with a written dependency has a follow-up flush queued.
C8_FollowUpFlushQueued ==
    (last.op = "flush" /\ last.wrote /\ ~last.threw) =>
        \A e \in Effects : (IsWatched(Cur, e) /\ Stale(e)) => microtasks > 0

\* C9: the cleanup returned by run k is invoked at most once, and only in run k + 1
\* or in unsubscribe.
C9_CleanupAtMostOnce ==
    \A e \in Effects : \A k \in 1..Len(calls[e]) :
        calls[e][k] \in {<<>>, <<k + 1>>, <<0>>}

\* The number of cleanup invocations made by unsubscribe among the invocations cs
\* recorded for one reaction.
UnsubCalls(cs) ==
    Cardinality(UNION {{<<k, i>> : i \in {j \in 1..Len(cs[k]) : cs[k][j] = 0}} :
                           k \in 1..Len(cs)})

\* C10: a second call of the unsubscribe function changes nothing, and the calls of
\* the unsubscribe function together invoke the cleanup held at the first call once.
C10_UnsubscribeIdempotent ==
    /\ [][(last'.op = "unsub" /\ last'.again) =>
            UNCHANGED <<cells, comp, watcher, needsEnqueue, microtasks, runs, seen, calls>>]_vars
    /\ [][(last'.op = "unsub" /\ ~last'.again /\ comp[last'.e].cleanup # 0) =>
            UnsubCalls(calls'[last'.e]) = 1]_vars
    /\ [](\A e \in Effects : UnsubCalls(calls[e]) <= 1)

\* C11: once the unsubscribe function of a reaction has been called, its body is never
\* called again: the number of its runs stays what it was at the first call.
C11_NoRunAfterUnsubscribe ==
    \A e \in Effects : unsubAt[e] # -1 => runs[e] = unsubAt[e]

\* The cells the body of reaction e reads when it is run in the current state: those
\* of its get operations up to the one that throws.
BodyReads(e) ==
    LET ops == Body(e).ops
        throws(i) == ops[i].op = "get" /\ cells[ops[i].cell].value = ops[i].val
    IN  {ops[i].cell : i \in {j \in 1..Len(ops) :
                                /\ ops[j].op \in {"get", "unsub"}
                                /\ \A k \in 1..(j - 1) : ~throws(k)}}

\* C12: the call effect(body) runs the body once, and when it ends the reaction is
\* watched and its producers are the cells that run read, with the values they had.
C12_InitialRun ==
    [][last'.op = "effect" =>
        LET e == last'.e
        IN  /\ runs[e] = 0
            /\ runs'[e] = 1
            /\ \A o \in Effects \ {e} : runs'[o] = runs[o]
            /\ e \in Range(watcher'.producerNode)
            /\ Range(comp'[e].producerNode) = BodyReads(e)
            /\ \A c \in Cells :
                  seen'[e][c] = IF c \in BodyReads(e) THEN cells[c].value ELSE -1]_vars

C12_Witness ==
    /\ last.op = "effect"
    /\ last.e = 1
    /\ runs[1] = 1
    /\ Range(comp[1].producerNode) = {StoreCell, PlainCell}
    /\ seen[1][StoreCell] = 1

\* C13: in one send every middleware's getState() returns the state before the
\* message until the reducer has run and the state after it from then on, and a
\* get() after the send returns that new state.
C13_SendIsSynchronous ==
    /\ [][last'.op = "send" =>
            LET n == Len(middleware)
                pre == cells[StoreCell].value
                post == cells'[StoreCell].value
            IN  /\ states' = [i \in 1..(2 * n) |-> IF i <= n THEN pre ELSE post]
                /\ \E msg \in Msgs : post = update(pre, msg)
                /\ log'[n + 1] = Event("reducer", 0)]_vars
    /\ [][(last.op = "send" /\ last'.op = "get") => got' = cells[StoreCell].value]_vars

C13_Witness ==
    /\ last.op = "get"
    /\ Len(middleware) = 2
    /\ states = <<1, 1, 2, 2>>
    /\ got = 2

\* The send function the store under test hands out, as its list of wrappers.
FxSendFn ==
    IF decorated
    THEN <<FxDeco>> \o Compose(middleware, <<FxBase>>)
    ELSE Compose(middleware, <<FxBase>>)

\* The position of the first entry e of log l, or 0.
FirstAt(l, e) ==
    IF e \in Range(l)
    THEN CHOOSE i \in 1..Len(l) : l[i] = e /\ \A j \in 1..(i - 1) : l[j] # e
    ELSE 0

\* The fx entries of a log.
FxEvents(l) == {i \in 1..Len(l) : l[i].at = "fx"}

\* The message a step passed to a send function, or NoMsg: the message sent from
\* outside, or the message forkFx took from the generator of drain last'.e.
StepMsg ==
    CASE last'.op = "send" -> sent'[Len(sent')]
      [] last'.op = "drain" /\ drains[last'.e].status = "yielded" -> drains[last'.e].pend
      [] OTHER -> NoMsg

\* The send function that step called.
StepSendFn == IF last'.op = "send" THEN FxSendFn ELSE drains[last'.e].send

\* C14: a message passed through an fx-wrapped send invokes the effect function
\* once, after the reducer applied the message, and the effect starts from the state
\* the reducer returned.
C14_EffectOncePerMessageAfterReducer ==
    [][(StepMsg # NoMsg /\ (FxMw \in Range(StepSendFn) \/ FxDeco \in Range(StepSendFn))) =>
        LET new == Len(drains) + 1
        IN  /\ Len(drains') = new
            /\ FxEvents(log') = {FirstAt(log', Event("fx", new))}
            /\ ReducerCalls(log') = 1
            /\ FirstAt(log', Event("reducer", 0)) < FirstAt(log', Event("fx", new))
            /\ drains'[new].msg = StepMsg
            /\ drains'[new].born = counterReducer(cells[StoreCell].value, StepMsg)
            /\ drains'[new].born = cells'[StoreCell].value]_vars

\* An increment sent from outside when the state was 6: its effect started from 7.
C14_Witness ==
    /\ last.op = "send"
    /\ Len(sent) = 2
    /\ sent[2] = Msg("increment", 0)
    /\ drains[Len(drains)].born.count = 7
    /\ drains[Len(drains)].status = "done"

\* C15: the message forkFx takes from a generator is sent with the fx-wrapped send
\* the store hands out, so the effect function is invoked for it.
C15_YieldedThroughWrappedSend ==
    [][(last'.op = "drain" /\ drains[last'.e].status = "yielded") =>
        /\ drains[last'.e].send = FxSendFn
        /\ Len(drains') = Len(drains) + 1
        /\ drains'[Len(drains')].msg = drains[last'.e].pend]_vars

\* C16: the message forkFx takes from a generator passes every recording middleware
\* of the store before the reducer applies it.
C16_YieldedThroughFullPipeline ==
    [][(last'.op = "drain" /\ drains[last'.e].status = "yielded") =>
        \A mw \in Range(middleware) \ {FxMw} :
            /\ Event("before", mw) \in Range(log')
            /\ FirstAt(log', Event("before", mw)) < FirstAt(log', Event("reducer", 0))]_vars

\* The entries of the history of reducer calls that drain d sent (0: the outside).
FromDrain(s, d) == SelectSeq(s, LAMBDA a : a.from = d)

\* The drains started by the messages drain d sent (0: the outside).
StartedBy(d) == SelectSeq(drains, LAMBDA dr : dr.by = d)

MsgsOf(s) == [i \in 1..Len(s) |-> s[i].msg]

\* No forkFx call has anything left to do.
Quiet == \A d \in 1..Len(drains) : drains[d].status \in {"done", "errored"}

\* C17: every send from outside starts a drain of its own; whatever the interleaving
\* of the drains, the reducer has received every message sent from outside and every
\* message a loop took from its generator once, and when all drains have ended every
\* message yielded has been received.
C17_NoneLostNoneDuplicated ==
    /\ MsgsOf(StartedBy(0)) = sent
    /\ MsgsOf(FromDrain(applied, 0)) = sent
    /\ Len(applied) = Len(sent)
          + Cardinality(UNION {{<<d, i>> : i \in 1..Len(drains[d].delivered)} :
                                  d \in 1..Len(drains)})
    /\ \A d \in 1..Len(drains) :
          /\ Len(FromDrain(applied, d)) = Len(drains[d].delivered)
          /\ Len(drains[d].yielded) - Len(drains[d].delivered)
                = IF drains[d].status = "yielded" THEN 1 ELSE 0
    /\ Quiet => \A d \in 1..Len(drains) : Len(FromDrain(applied, d)) = Len(drains[d].yielded)

\* Two drains of async_increment have ended and their sends alternated.
C17_Witness ==
    /\ sent = <<Msg("async_increment", 0), Msg("async_increment", 0)>>
    /\ Quiet
    /\ MsgsOf(applied) = <<Msg("async_increment", 0), Msg("async_increment", 0),
                           Msg("increment", 0), Msg("increment", 0),
                           Msg("set", 6), Msg("set", 7)>>
    /\ cells[StoreCell].value.count = 7

\* The messages the body testFx runs for msg yields when it runs to its end, with
\* their number; a computed message counts as one.
YieldsOf(msg) == Cardinality({i \in 1..Len(testFx(msg)) :
                                 testFx(msg)[i].op \in {"yield", "yieldset"}})

\* C18: the reducer receives from one drain the messages its generator yielded, in
\* the order of the yields and each once; from a generator that yields nothing it
\* receives nothing; and in the end every drain has come to its end, with all the
\* messages of a generator that returned received by the reducer.
C18_DrainDeliversYieldsInOrder ==
    /\ [](\A d \in 1..Len(drains) :
            LET got_d == MsgsOf(FromDrain(applied, d))
            IN  /\ Len(got_d) <= Len(drains[d].yielded)
                /\ got_d = SubSeq(drains[d].yielded, 1, Len(got_d))
                /\ YieldsOf(drains[d].msg) = 0 => got_d = <<>>
                /\ drains[d].status = "done" =>
                      /\ got_d = drains[d].yielded
                      /\ Len(got_d) = YieldsOf(drains[d].msg))
    /\ <>[]Quiet

\* A drain of async_increment has ended: the reducer received its two messages.
C18_Witness ==
    \E d \in 1..Len(drains) :
        /\ drains[d].status = "done"
        /\ drains[d].msg = Msg("async_increment", 0)
        /\ Len(FromDrain(applied, d)) = 2
        /\ MsgsOf(FromDrain(applied, d))[1] = Msg("increment", 0)
        /\ MsgsOf(FromDrain(applied, d))[2].type = "set"

\* C19: getState() in a generator returns the state the store has when it is called:
\* a message computed from it after a yield carries the state that follows the send
\* of the message yielded, and async_increment sent alone to a store at 0 leaves 6.
C19_GetStateIsCurrent ==
    /\ [][\A d \in 1..Len(drains) :
            (/\ drains'[d].pc = drains[d].pc + 1
             /\ testFx(drains[d].msg)[drains[d].pc].op = "yieldset") =>
                /\ drains'[d].pend =
                      Msg("set", cells'[StoreCell].value.count
                                    + testFx(drains[d].msg)[drains[d].pc].plus)
                /\ drains[d].status = "yielded" =>
                      cells'[StoreCell].value =
                          counterReducer(cells[StoreCell].value, drains[d].pend)]_vars
    /\ []((sent = <<Msg("async_increment", 0)>> /\ Quiet) =>
             cells[StoreCell].value.count = 6)

C19_Witness ==
    /\ sent = <<Msg("async_increment", 0)>>
    /\ Quiet
    /\ cells[StoreCell].value.count = 6
    /\ cells[StoreCell].value.loading
    /\ drains[1].born.count = 0
    /\ drains[1].delivered = <<Msg("increment", 0), Msg("set", 6)>>

\* C20: a generator that throws ends its own drain with one warning and nothing
\* else: the send during which it threw completes, the catch changes neither the
\* state nor another drain, and once a drain has failed the other drains still
\* deliver their messages and a send still applies its message and starts its effect.
C20_ErrorContained ==
    /\ [](/\ \A d \in 1..Len(drains) : drains[d].status = "errored" <=> d \in Range(warnings)
          /\ Cardinality(Range(warnings)) = Len(warnings))
    /\ [][(last'.op = "drain" /\ last'.threw) =>
            /\ warnings' = Append(warnings, last'.e)
            /\ cells' = cells
            /\ applied' = applied
            /\ Len(drains') = Len(drains)
            /\ \A d \in 1..Len(drains) : d # last'.e => drains'[d] = drains[d]]_vars
    /\ [][((\E d \in 1..Len(drains') : drains'[d].status \in {"threw", "errored"})
            /\ StepMsg # NoMsg) =>
            /\ cells'[StoreCell].value = counterReducer(cells[StoreCell].value, StepMsg)
            /\ Len(applied') = Len(applied) + 1
            /\ applied'[Len(applied')].msg = StepMsg
            /\ (FxMw \in Range(StepSendFn) \/ FxDeco \in Range(StepSendFn)) =>
                  /\ Len(drains') = Len(drains) + 1
                  /\ drains'[Len(drains')].msg = StepMsg]_vars

\* After the warning of a failed drain, a drain started later has delivered both of
\* its messages.
C20_Witness ==
    /\ sent = <<Msg("error", 0), Msg("async_increment", 0)>>
    /\ warnings = <<1>>
    /\ drains[1].status = "errored"
    /\ drains[2].status = "done"
    /\ Len(drains[2].delivered) = 2
    /\ cells[StoreCell].value.count = 6

\* The fold of the reducer of the fx tests over a list of messages.
RECURSIVE FoldCounter(_, _)
FoldCounter(state, msgs) ==
    IF msgs = <<>> THEN state
    ELSE FoldCounter(counterReducer(state, Head(msgs)), Tail(msgs))

\* C21: a throw in an effect rolls nothing back: the state is always the fold of the
\* reducer over every message applied so far, those of drains that failed included;
\* the step in which a generator throws changes the state by nothing but the message
\* sent in that step, and the catch leaves the state as it is.
C21_NoRollback ==
    /\ [](cells[StoreCell].value = FoldCounter([id |-> 0, count |-> InitialState, loading |-> FALSE],
                                                 MsgsOf(applied)))
    /\ [][\A d \in 1..Len(drains) :
            (drains'[d].status \in {"threw", "errored"} /\ drains'[d] # drains[d]) =>
                /\ SubSeq(applied', 1, Len(applied)) = applied
                /\ cells'[StoreCell].value =
                      IF drains[d].status = "yielded"
                      THEN counterReducer(cells[StoreCell].value, drains[d].pend)
                      ELSE cells[StoreCell].value]_vars
    /\ [][\A msg \in FxMsgs :
            (/\ last'.op = "send" /\ sent'[Len(sent')] = msg
             /\ testFx(msg) # <<>> /\ testFx(msg)[1].op = "throw") =>
                cells'[StoreCell].value = counterReducer(cells[StoreCell].value, msg)]_vars

\* The drain of yield_error has failed after the increment it yielded was applied,
\* and the state is 1.
C21_Witness ==
    /\ sent = <<Msg("yield_error", 0)>>
    /\ warnings = <<1>>
    /\ drains[1].status = "errored"
    /\ drains[1].delivered = <<Msg("increment", 0)>>
    /\ cells[StoreCell].value.count = 1

\* C22: a forkFx call changes only in its own continuations, and it ends only when
\* its generator returned or threw; a send, whatever its message, leaves every drain
\* in flight as it is.
C22_DrainEndsOnlyByGenerator ==
    [][\A d \in 1..Len(drains) :
        /\ drains'[d] # drains[d] => (last'.op = "drain" /\ last'.e = d)
        /\ (drains'[d].status = "done" /\ drains[d].status # "done") =>
              /\ drains[d].pc > Len(testFx(drains[d].msg))
              /\ drains'[d].delivered = drains'[d].yielded
        /\ (drains'[d].status = "errored" /\ drains[d].status # "errored") =>
              /\ drains[d].status = "threw"
              /\ testFx(drains[d].msg)[drains[d].pc - 1].op = "throw"
        /\ last'.op = "send" => drains'[d] = drains[d]]_vars

\* An increment was sent while the drain of async_increment was awaiting; that drain
\* has since delivered both of its messages and ended.
C22_Witness ==
    /\ sent = <<Msg("async_increment", 0), Msg("increment", 0)>>
    /\ Len(drains) >= 2
    /\ drains[2].born.count = 1
    /\ drains[1].status = "done"
    /\ drains[1].delivered = <<Msg("increment", 0), Msg("set", 7)>>

\* The recording middlewares between preventNegativeMiddleware and the base send:
\* those listed before it.
InsidePrevent ==
    {middleware[i] : i \in {j \in 1..Len(middleware) :
        \E k \in (j + 1)..Len(middleware) : middleware[k] = PreventMw}}

\* C27: a message for which preventNegativeMiddleware does not call the send it wraps
\* is suppressed: the reducer is not called, the state cell is left as it was and no
\* middleware between it and the base send sees the message; every other message is
\* applied by the reducer once, after every middleware saw it.
C27_NoNextSuppresses ==
    [][(last'.op = "send" /\ PreventMw \in Range(middleware)) =>
        LET msg == sent'[Len(sent')]
        IN  IF msg.type = "decrement" /\ cells[StoreCell].value <= 0
            THEN /\ cells' = cells
                 /\ ReducerCalls(log') = 0
                 /\ unknown' = <<>>
                 /\ \A mw \in InsidePrevent :
                       Event("before", mw) \notin Range(log') /\ Event("after", mw) \notin Range(log')
                 /\ \A mw \in (Range(middleware) \ {PreventMw}) \ InsidePrevent :
                       Event("before", mw) \in Range(log') /\ Event("after", mw) \in Range(log')
            ELSE /\ cells'[StoreCell].value = update(cells[StoreCell].value, msg)
                 /\ ReducerCalls(log') = 1
                 /\ \A mw \in Range(middleware) \ {PreventMw} :
                       Event("before", mw) \in Range(log') /\ Event("after", mw) \in Range(log')]_vars

\* A decrement was stopped at state 0 after one that was applied; the recording
\* middleware inside saw nothing of it.
C27_Witness ==
    /\ middleware = <<1, PreventMw>>
    /\ sent = <<Msg("increment", 0), Msg("decrement", 0), Msg("decrement", 0)>>
    /\ last.op = "send"
    /\ cells[StoreCell] = [value |-> 0, version |-> 2]
    /\ log = <<>>

\* C30: a message matched by no branch of the reducer reaches updateUnknown: the send
\* leaves the state cell as it was and get() returns the same state, and console.warn
\* is called once, with that message; a message that is matched causes no warning.
C30_UnknownWarnsOnce ==
    /\ [][last'.op = "send" =>
            LET msg == sent'[Len(sent')]
            IN  IF msg.type \in {"increment", "decrement", "set", "add"}
                THEN unknown' = <<>>
                ELSE /\ unknown' = <<msg>>
                     /\ cells' = cells
                     /\ ReducerCalls(log') = 1]_vars
    /\ [][last'.op = "get" => (got' = cells[StoreCell].value /\ unknown' = unknown)]_vars
    /\ \A msg \in Msgs, state \in 0..MaxVal :
            msg.type = "noop" => update(state, msg) = state

\* After an increment, an unknown message was sent and get() returned 1 again.
C30_Witness ==
    /\ sent = <<Msg("increment", 0), Msg("noop", 0)>>
    /\ unknown = <<Msg("noop", 0)>>
    /\ last.op = "get"
    /\ got = 1
    /\ cells[StoreCell] = [value |-> 1, version |-> 1]

\* A producer of reaction e has a version other than the one e read last.
ProducerChanged(e) ==
    \E i \in 1..Len(comp[e].producerNode) :
        comp[e].producerLastReadVersion[i] # cells[comp[e].producerNode[i]].version

\* The body of reaction e is run again only in a flush, and only when a cell it
\* depends on was written since its last run.
RerunOnlyForProducers(e) ==
    (runs[e] >= 1 /\ runs'[e] # runs[e]) =>
        /\ last'.op = "flush"
        /\ runs'[e] = runs[e] + 1
        /\ ProducerChanged(e)

\* A write from outside that changes cell c marks the watched reaction e, when it is
\* clean, and a flush is queued; the flush that finds it marked runs its body.
WriteReruns(e, c) ==
    /\ (/\ last'.op \in {"set", "send"}
        /\ cells'[c] # cells[c]
        /\ comp[e].status = "active" /\ ~comp[e].dirty) =>
            (comp'[e].dirty /\ microtasks' >= 1)
    /\ (last'.op = "flush" /\ comp[e].status = "active" /\ comp[e].dirty) =>
            (runs'[e] = runs[e] + 1 /\ ~comp'[e].dirty)

\* C28: the cell the peek reaction reads inside peek is not among its producers; a
\* write to that cell does not mark the reaction and its body is not run again on
\* account of it; the reads before and after the peek are tracked, so a write to
\* either of those cells has the body run again; and peek returned the value the
\* cell had when the body ran.
C28_PeekNotTracked ==
    /\ [](comp[PeekEffect].status = "active" =>
            comp[PeekEffect].producerNode = <<PlainCell, StoreCell>>)
    /\ [][/\ (last'.op = "set" /\ last'.e = OtherCell) => comp'[PeekEffect] = comp[PeekEffect]
          /\ RerunOnlyForProducers(PeekEffect)
          /\ WriteReruns(PeekEffect, PlainCell)
          /\ WriteReruns(PeekEffect, StoreCell)
          /\ runs'[PeekEffect] # runs[PeekEffect] =>
                \A c \in Cells : seen'[PeekEffect][c] = cells'[c].value]_vars

\* The cell peeked was written and nothing ran; the plain cell was written next, and
\* in the flush the body ran a second time and peek returned the value written.
C28_Witness ==
    /\ last.op = "flush"
    /\ PeekEffect \in last.ran
    /\ runs[PeekEffect] = 2
    /\ comp[CondEffect].status = "none"
    /\ cells[OtherCell].version = 1
    /\ cells[PlainCell].version = 1
    /\ cells[OtherCell].value # InitialState
    /\ seen[PeekEffect][OtherCell] = cells[OtherCell].value

\* C29: the producers of the conditional reaction are those its last run read: the
\* plain cell, and the other cell only when the condition held in that run. Once a
\* run found the condition false, a write to the other cell does not mark the
\* reaction and its body is not run again on account of it, while a write to the
\* plain cell still has the body run again.
C29_DependenciesReestablished ==
    /\ [](comp[CondEffect].status = "active" =>
            comp[CondEffect].producerNode =
                IF seen[CondEffect][PlainCell] = InitialState
                THEN <<PlainCell, OtherCell>>
                ELSE <<PlainCell>>)
    /\ [][/\ (/\ last'.op = "set" /\ last'.e = OtherCell
              /\ runs[CondEffect] >= 1
              /\ seen[CondEffect][PlainCell] # InitialState) =>
                comp'[CondEffect] = comp[CondEffect]
          /\ RerunOnlyForProducers(CondEffect)
          /\ WriteReruns(CondEffect, PlainCell)]_vars

\* The conditional reaction ran with the condition true, then with the condition
\* false; the write to the other cell that followed marked nothing and queued nothing.
C29_Witness ==
    /\ last.op = "set"
    /\ last.e = OtherCell
    /\ last.wrote
    /\ runs[CondEffect] = 2
    /\ comp[PeekEffect].status = "none"
    /\ seen[CondEffect][PlainCell] # InitialState
    /\ comp[CondEffect].producerNode = <<PlainCell>>
    /\ ~comp[CondEffect].dirty
    /\ microtasks = 0

\* ------------------------------------------------------------ scoped stores

\* The projections of the scoped stores, composed down from the root store's state.
Projection(s, state) ==
    CASE s = ScopeChild -> state.child
      [] s = ScopeCounter -> state.child.counter
      [] OTHER -> state.name

\* What scoped.get() returns now, on scoped store s.
ScopedGet(s) == ScopeGet(Cur, NoFrame, s).value

\* C23: after any sequence of messages sent through the parent store or through a
\* scoped store, get() of every scoped store returns the projection of the parent
\* store's state, and get() of the scope of a scoped store the composition of the
\* two projections applied to the root store's state; a get() from outside returned
\* that value.
C23_ScopedGetIsProjection ==
    /\ \A s \in Scopes : ScopedGet(s) = Projection(s, cells[ParentCell].value)
    /\ (last.op = "get" /\ last.e \in Scopes) =>
            got = Projection(last.e, cells[ParentCell].value)

\* The counter was moved through a scoped store and through the parent store, the
\* name was set, and get() of the scope of the scoped store returned the counter.
C23_Witness ==
    /\ last.op = "get"
    /\ last.e = ScopeCounter
    /\ got = InitialState + 2
    /\ cells[ParentCell].value.name = 1
    /\ derived[ScopeCounter].version >= 2

\* The tags of the scoped stores between scoped store s and the root store, applied
\* to msg innermost first.
Tagged(s, msg) ==
    IF s = ScopeCounter THEN tag(ScopeChild, tag(ScopeCounter, msg)) ELSE tag(s, msg)

\* C24: scoped.send(m) does what parent.send(tag(m)) does: the parent store's send
\* is called exactly once, with the tagged message (through a scope of a scoped
\* store with both tags, the innermost applied first), and when scoped.send returns
\* the parent's state, the nodes marked and the flush queued are those
\* parent.send(tag(m)) leaves.
C24_ScopedSendIsTaggedParentSend ==
    [][(last'.op = "send" /\ last'.e \in Scopes) =>
          /\ Len(sent') = 1
          /\ applied' = <<[msg |-> Tagged(last'.e, sent'[1]), from |-> last'.e]>>
          /\ \E p \in {ParentSend(Cur, NoFrame, Tagged(last'.e, sent'[1])).g} :
                 /\ cells' = p.cells
                 /\ derived' = p.derived
                 /\ comp' = p.comp
                 /\ watcher' = p.watcher
                 /\ microtasks' = p.microtasks
                 /\ needsEnqueue' = p.needsEnqueue]_vars

\* An increment sent to the scope of the scoped store reached the parent store as
\* l1_child_increment, once, and the parent's counter moved.
C24_Witness ==
    /\ last.op = "send"
    /\ last.e = ScopeCounter
    /\ sent = <<Msg("increment", 0)>>
    /\ applied = <<[msg |-> Msg("l1_child_increment", 0), from |-> ScopeCounter]>>
    /\ cells[ParentCell].value.child.counter = InitialState + 2
    /\ last.wrote

\* The value of what get() of scoped store s returned (an object by its fields).
ByValue(s, v) == IF s = ScopeChild THEN v.counter ELSE v

\* The scoped stores whose projection reads the field a message sent to the parent
\* store, or to scoped store e, is about.
About(e, msg) ==
    IF e = ScopeName \/ msg.type = "set_name" THEN {ScopeName}
    ELSE IF msg.type = "noop" THEN {}
    ELSE {ScopeChild, ScopeCounter}

\* C25: a message that changes the parent state only outside the projection of a
\* scoped store leaves the value of that store's get() as it was: setting the name,
\* through the parent store or through the name store, leaves the counter stores'
\* get(), and a counter message, through the parent store or a counter store,
\* leaves the name store's get().
C25_UnrelatedChangeLeavesScopedGet ==
    [][last'.op = "send" =>
          \A s \in Scopes \ About(last'.e, sent'[1]) :
              /\ ByValue(s, ScopedGet(s)') = ByValue(s, ScopedGet(s))
              /\ ByValue(s, Projection(s, cells'[ParentCell].value)) =
                     ByValue(s, Projection(s, cells[ParentCell].value))]_vars

\* The name was set through the name store while the counter was 2, and the parent
\* state changed.
C25_Witness ==
    /\ last.op = "send"
    /\ last.e = ScopeName
    /\ last.wrote
    /\ sent = <<Msg("set_name", 1)>>
    /\ cells[ParentCell].value.name = 1
    /\ ScopedGet(ScopeCounter) = InitialState + 2

\* The counter of the parent state, which the counter store projects.
Counter == cells[ParentCell].value.child.counter

\* The reaction that reads the counter store is subscribed.
Reading == comp[ScopeEffect].status = "active"

CellWritten == \E c \in Cells : cells'[c] # cells[c]

\* C33: at most one processPending microtask is queued at any time, and needsEnqueue
\* is false exactly while one is queued and has not started. A step queues one only
\* when it writes a cell, and only when none was queued or the step is the flush
\* itself, which set needsEnqueue before it ran the bodies.
C33_AtMostOneFlushQueued ==
    /\ [](microtasks \in {0, 1} /\ (needsEnqueue <=> microtasks = 0))
    /\ [][/\ microtasks' > microtasks =>
                (microtasks = 0 /\ needsEnqueue /\ CellWritten /\ last'.op # "flush")
          /\ (last'.op = "flush" /\ microtasks' = 1) => (microtasks = 1 /\ CellWritten)]_vars

\* A write queued a flush; a reaction was created before the flush ran, which
\* cleared the Watcher's dirty flag; the next write notified the Watcher again and
\* no second flush was queued.
C33_Witness ==
    /\ microtasks = 1
    /\ ~needsEnqueue
    /\ last.op = "set"
    /\ watcher.dirty
    /\ comp[1].status = "active" /\ comp[1].dirty
    /\ comp[2].status = "active" /\ comp[2].dirty
    /\ runs[2] = 1
    /\ seen[2][StoreCell] # InitialState

\* No unsubscribe function has been called.
NoUnsubscribe == \A e \in Effects : unsubAt[e] = -1

\* C37: while no unsubscribe function has been called, the Watcher holds the
\* reactions in the order of the effect() calls that registered them, and a flush
\* calls the bodies of the pending ones in that order: the calls of one flush are
\* the pending reactions, up to the first whose body throws, as they follow each
\* other in the registration order.
C37_RerunInRegistrationOrder ==
    [][NoUnsubscribe' =>
          /\ watcher'.producerNode =
                 IF last'.op = "effect"
                 THEN Append(watcher.producerNode, last'.e)
                 ELSE watcher.producerNode
          /\ last'.op = "flush" =>
                 /\ last'.pending =
                        SelectSeq(watcher.producerNode, LAMBDA e : comp[e].dirty)
                 /\ order' = SelectSeq(watcher.producerNode, LAMBDA e : e \in last'.ran)
                 /\ \E n \in 0..Len(last'.pending) : order' = SubSeq(last'.pending, 1, n)
                 /\ ~last'.threw => order' = last'.pending]_vars

\* Reaction 2 was registered before reaction 1; both were pending in one flush and
\* their bodies were called in that order.
C37_Witness ==
    /\ last.op = "flush"
    /\ NoUnsubscribe
    /\ watcher.producerNode = <<2, 1>>
    /\ order = <<2, 1>>
    /\ runs[1] = 2 /\ runs[2] = 2

\* ----------------------------------------------------- send in a reaction body

\* C36: store.send called in the body of a reaction does not make the reaction
\* depend on the store's state: the store's cell is not among the producers of the
\* sending reaction, a send from outside does not mark it, and its body is called
\* again only when the plain cell it reads was written since its last run.
C36_SendDoesNotSubscribe ==
    /\ [](StoreCell \notin Range(comp[SendEffect].producerNode))
    /\ [][/\ last'.op = "send" => comp'[SendEffect].dirty = comp[SendEffect].dirty
          /\ (runs[SendEffect] >= 1 /\ runs'[SendEffect] # runs[SendEffect]) =>
                seen[SendEffect][PlainCell] # cells[PlainCell].value]_vars

\* C35: when the fx-wrapped send(m) returns, the state of the store is the reducer
\* applied to m alone: the reducer has received m and no message of a generator, also
\* of a generator that yields at once, whose message waits in its forkFx call.
C35_SendReturnsBeforeYieldsApply ==
    [][last'.op = "send" =>
        /\ cells'[StoreCell].value =
              counterReducer(cells[StoreCell].value, sent'[Len(sent')])
        /\ applied' = Append(applied, [msg |-> sent'[Len(sent')], from |-> 0])
        /\ \A d \in 1..Len(drains') :
              /\ drains'[d].delivered = IF d <= Len(drains) THEN drains[d].delivered ELSE <<>>
              /\ d > Len(drains) => Len(drains'[d].yielded) <= 1]_vars

\* send of yield_error has returned: its generator has yielded increment, which no
\* send has received, and the state is the one before the send.
C35_Witness ==
    /\ last.op = "send"
    /\ sent = <<Msg("increment", 0), Msg("yield_error", 0)>>
    /\ drains[Len(drains)].msg = Msg("yield_error", 0)
    /\ drains[Len(drains)].status = "yielded"
    /\ drains[Len(drains)].pend = Msg("increment", 0)
    /\ drains[Len(drains)].delivered = <<>>
    /\ cells[StoreCell].value.count = InitialState + 1

\* The values $state.set is called with while the store handles m in state st: those
\* of the send the reducer makes, then the value the reducer returns.
RECURSIVE WritesOf(_, _)
WritesOf(st, m) ==
    IF reducerSend(m) = NoMsg
    THEN <<reducerReturns(st, m)>>
    ELSE Append(WritesOf(st, reducerSend(m)), reducerReturns(st, m))

\* C34: when a reducer handling m1 in state s calls send(m2) on its store, the nested
\* send writes its result before the outer write, and when the outer send returns the
\* state is the value the outer reducer returned, computed from s.
C34_NestedSendWritesFirst ==
    [][last'.op = "send" =>
        /\ written' = WritesOf(cells[StoreCell].value, sent'[Len(sent')])
        /\ cells'[StoreCell].value
              = reducerReturns(cells[StoreCell].value, sent'[Len(sent')])]_vars

\* In state 1 the reducer handled relay 2: the nested add wrote 3, then the outer
\* write made the state 2.
C34_Witness ==
    /\ last.op = "send"
    /\ sent = <<Msg("increment", 0), Msg("relay", 2)>>
    /\ written = <<3, 2>>
    /\ cells[StoreCell].value = 2

\* The ticks drain d sent after the reducer call at position i of the history.
TicksAfter(d, i) == {j \in (i + 1)..Len(applied) : applied[j].from = d}

\* C31: with the clock pattern (the generator checks getState().isClockRunning, yields
\* a tick and awaits), a drain started by a start message sends at most one further
\* tick once a stop message has been applied, whatever is sent afterwards, a new
\* start message included. (drains[d] is the forkFx call made for applied[d])
C31_DrainStopsAfterStop ==
    \A d \in 1..Len(drains) :
        drains[d].msg.type = "start-clock" =>
            \A i \in (d + 1)..Len(applied) :
                applied[i].msg.type = "stop-clock" => Cardinality(TicksAfter(d, i)) <= 1

\* The derivation functions of the dependency graph applied to the cells: the sum and
\* the product of the two cells, added.
CombinedOf(c) == (c[PlainCell].value + c[OtherCell].value)
                    + (c[PlainCell].value * c[OtherCell].value)

\* The writes to the two cells since sum was last brought up to date.
WritesSince ==
    (cells[PlainCell].version + cells[OtherCell].version)
        - (diamond[Sum].read[1] + diamond[Sum].read[2])

OutOf(key) == merge.out[key]

\* The next() calls on iterator key that have not settled.
Outstanding(key) == merge.calls[key] - merge.settled[key]

\* C38: mergeAsync over finite sources yields the values of each source once and in
\* the order of the source, has at most one next() call outstanding per source, and
\* completes once all sources are exhausted, having yielded every value; an empty
\* source contributes nothing.
C38_MergeYieldsAllOnce ==
    /\ [](\A key \in 1..Len(merge.srcs) :
            /\ Len(OutOf(key)) <= Len(merge.srcs[key])
            /\ OutOf(key) = SubSeq(merge.srcs[key], 1, Len(OutOf(key)))
            /\ Outstanding(key) \in {0, 1}
            /\ Cardinality({p \in 1..Len(merge.pending) : merge.pending[p].key = key}) <= 1
            /\ merge.pc = "done" =>
                  /\ OutOf(key) = merge.srcs[key]
                  /\ merge.calls[key] = Len(merge.srcs[key]) + 1
                  /\ Outstanding(key) = 0)
    /\ [](merge.pc \notin {"none", "done"} => <>(merge.pc = "done"))

\* mergeAsync(fromArray([]), fromArray([1, 2])) has completed: it yielded 1 and 2
\* from the second iterable and nothing from the first.
C38_Witness ==
    /\ merge.pc = "done"
    /\ merge.srcs = <<<<>>, <<1, 2>>>>
    /\ merge.out = <<<<>>, <<1, 2>>>>
    /\ merge.calls = <<1, 3>>

====
